---- MODULE Spec2Model ----
(***************************************************************************)
(* A model of the hydrate asset pipeline: the nexdb property data set      *)
(* (prototype chains, null overrides, dynamic arrays), the artifact        *)
(* handles and their reference operations, the AssetLoadOp guard, the      *)
(* loader's load states, the import worker's staleness check and writes,   *)
(* the serde scope of handles, the ids of produced artifacts, the import   *)
(* worker pool, indirect handles, the cancellation of loads, the editor's  *)
(* edit contexts (save, revert, scratch contexts), path population, the    *)
(* locations of the objects of a data set, the schemas of prototypes, the  *)
(* thread-local serde scope, the indirect bit of a LoadHandle, the record  *)
(* builder and its fields, the pending undo contexts of all edit contexts, *)
(* the active request count of the pool and the gathering of imports.      *)
(***************************************************************************)
EXTENDS Integers, Sequences, FiniteSets, TLC

VARIABLES
    objects,        \* DataSet::objects : ObjectId -> DataObjectInfo
    ops,            \* number of DataSet operations run so far
    handles,        \* every HandleRef made so far: [id, ref_type, dropped]
    ref_ops,        \* the RefOps sent on the Sender<RefOp> so far
    handle_event,   \* what the last handle operation did
    ref_op_senders, \* for each RefOp of ref_ops, the index of the handle that sent it
    load_ops,       \* every AssetLoadOp made so far: [sender, handle, version, op, ended]
    loader_events,  \* the HandleOps sent on the Sender<LoaderEvent> so far
    load_state,     \* LoadHandle -> LoadState
    user_refs,      \* LoadHandle -> strong handles the application holds
    load_version,   \* LoadHandle -> version of the latest load started
    metadata_deps,  \* LoadHandle -> dependencies listed in its metadata
    committed_version,  \* LoadHandle -> version the storage has committed, 0 for none
    reload_state,   \* LoadHandle -> LoadState of the load of a new version, or "None"
    committed_group,    \* the load handles of the last group commit
    source_file,    \* the source file F: [size, contents, modified]
    import_data_files,  \* asset -> ImportDataMetadata of its .if file, if there is one
    existing_asset_import_state,    \* the import state the worker pool was made with
    asset_import_info,  \* asset -> import info the main loop has attached to it
    import_outcome, \* the ImportThreadOutcome the main loop has not taken yet
    import_event,   \* what the last import request did
    imported_assets,    \* assets whose import data was written since F last changed
    mtime_changed,  \* F's modification time has changed since import data was written
    serde_context,  \* the DummySerdeContext of the active serde scope
    serde_handles,  \* the handles made inside the scope: HandleRef records
    serde_event,    \* what the last serde operation did
    built_artifact, \* the artifact the last produce_artifact_with_handles handed over
    request_queue,  \* the requests sent on request_tx and not received yet
    worker_threads,  \* worker -> the request it executes, "idle", or "dead" after a panic
    result_queue,  \* the outcomes sent on result_tx
    active_request_count,  \* ImportWorkerThreadPool::active_request_count
    requests_added, \* number of add_request calls so far
    indirection_table,  \* IndirectionTable: indirect LoadHandle -> direct LoadHandle
    direct_refs,  \* direct LoadHandle -> strong refcount
    rebind_pending,  \* the rebinding that has incremented and not decremented yet
    rebind_event, \* what the last completed rebinding did
    load_generation,  \* LoadHandle -> the loads started for it so far
    in_flight,  \* I/O requests and load results that have not come back to the loader
    cancel_event, \* the message the loader took last, and whether it discarded it
    root_data_set,  \* root edit context: asset -> contents
    root_modified_objects,  \* root edit context: change tracker
    root_pending,  \* root edit context: the pending undo context
    undo_entries,  \* entries on the undo stack
    source_storage,  \* what the data sources hold on disk: asset -> contents
    editor_pc, \* the step save_root_edit_context or revert_root_edit_context is at
    edit_contexts,  \* EditContextKey -> data set and change tracker of the edit context
    contexts_opened,  \* the scratch edit contexts opened so far
    editor_panic,  \* the assertion or unwrap that ended the editor, if any
    open_request, \* the objects named in the call of open_edit_context, if the step was one
    object_location,  \* populate_paths: object -> the path node id of its location
    unnamed_objects,  \* populate_paths: the objects whose name is not set
    objects_to_visit,  \* populate_paths: the objects the loop has not come to yet
    populate_frames,  \* the path nodes whose do_populate_path waits for the path of the parent
    path_stack,  \* do_populate_path: the visited set
    paths,  \* do_populate_path: path node id -> path
    populate_call,  \* the path node do_populate_path is entered with next, if any
    populate_ret, \* the path the last do_populate_path returned, if any
    object_locations,  \* DataSet.objects: object id -> the path node id of object_location
    located_created, \* the objects created in this data set so far
    typed_objects, \* two data sets: name -> (object id -> schema and prototype of the object)
    thread_local,  \* thread -> its LOADER and REFOP_SENDER cells
    scope_stack,  \* thread -> the contexts whose scope closure is running, innermost last
    scope_panicked,  \* the threads ended by a panic
    scope_event, \* the last step of a thread and its outcome
    new_args,  \* the arguments of a LoadHandle::new call
    new_handle,  \* the LoadHandle the call made
    is_indirect_ret, \* what is_indirect answered for that handle
    builder_cell,  \* the Rc<RefCell<Option<DataContainer>>> a builder shares with its fields
    builder_event, \* the last call through the builder or a field and what it returned
    undo_contexts,  \* edit context key -> its data set, change tracker and pending undo context
    undo_stack,  \* the number of entries of the undo stack of the editor model
    undo_event, \* the last call on the editor model and the state it found
    add_request_pc, \* the request of an add_request call between its fetch_add and its send
    referenced_source_files,  \* source file -> the source files its scanned importable references
    imported_source_files,  \* the source files an asset of the data set was imported from
    gather_stack,  \* the running calls, outermost first: the file and its references not yet visited
    imports_to_queue,  \* the source files of the ImportToQueue entries pushed, in order
    gather_status  \* running, returned, or overflow of the call stack

ds_vars == <<objects, ops>>
handle_vars == <<handles, ref_ops, handle_event, ref_op_senders>>
load_op_vars == <<load_ops, loader_events>>
loader_vars == <<load_state, user_refs, load_version, metadata_deps, committed_version,
                 reload_state, committed_group>>

import_vars == <<source_file, import_data_files, existing_asset_import_state,
                 asset_import_info, import_outcome, import_event, imported_assets,
                 mtime_changed>>
serde_vars == <<serde_context, serde_handles, serde_event, built_artifact>>

pool_vars == <<request_queue, worker_threads, result_queue, active_request_count, requests_added>>

indirect_vars == <<indirection_table, direct_refs, rebind_pending, rebind_event>>

cancel_vars == <<load_generation, in_flight, cancel_event>>

editor_vars == <<root_data_set, root_modified_objects, root_pending, undo_entries, source_storage, editor_pc>>

ctx_vars == <<edit_contexts, contexts_opened, editor_panic, open_request>>

populate_vars == <<object_location, unnamed_objects, objects_to_visit, populate_frames, path_stack, paths, populate_call, populate_ret>>

location_vars == <<object_locations, located_created>>

typed_vars == <<typed_objects>>

scope_vars == <<thread_local, scope_stack, scope_panicked, scope_event>>

bits_vars == <<new_args, new_handle, is_indirect_ret>>

builder_vars == <<builder_cell, builder_event>>

undo_vars == <<undo_contexts, undo_stack, undo_event>>

poolstep_vars == <<add_request_pc>>

gather_vars == <<referenced_source_files, imported_source_files, gather_stack, imports_to_queue, gather_status>>

vars == <<objects, ops, handles, ref_ops, handle_event, ref_op_senders, load_ops,
          loader_events,
          load_state, user_refs, load_version, metadata_deps, committed_version,
          reload_state, committed_group, source_file, import_data_files,
          existing_asset_import_state, asset_import_info, import_outcome, import_event,
          imported_assets, mtime_changed, serde_context, serde_handles, serde_event,
          built_artifact,
          request_queue, worker_threads, result_queue, active_request_count, requests_added,
          indirection_table, direct_refs, rebind_pending, rebind_event,
          load_generation, in_flight, cancel_event,
          root_data_set, root_modified_objects, root_pending, undo_entries, source_storage, editor_pc,
          edit_contexts, contexts_opened, editor_panic, open_request,
          object_location, unnamed_objects, objects_to_visit, populate_frames, path_stack, paths, populate_call, populate_ret,
          object_locations, located_created,
          typed_objects,
          thread_local, scope_stack, scope_panicked, scope_event,
          new_args, new_handle, is_indirect_ret,
          builder_cell, builder_event,
          undo_contexts, undo_stack, undo_event,
          add_request_pc,
          referenced_source_files, imported_source_files, gather_stack, imports_to_queue, gather_status>>

-----------------------------------------------------------------------------
(* Bounds of the model *)

MaxObjects == 2
MaxOps == 5
MaxHandles == 3
NumLoadHandles == 2
MaxLoadOps == 2
NumVersions == 2
MaxRefs == 2
TicksPerSecond == 2
MaxModified == 2

\* the LoadHandles the loader has allocated
LoadHandles == 1..NumLoadHandles

\* the importables of the source file, each with its asset
ImportableAssets == {1, 2}

-----------------------------------------------------------------------------
(* The state of each part before anything has run *)

DataSetIdle ==
    /\ objects = [i \in {} |-> 0]
    /\ ops = 0

HandleIdle ==
    /\ handles = <<>>
    /\ ref_ops = <<>>
    /\ handle_event = [op |-> "none"]
    /\ ref_op_senders = <<>>

LoadOpIdle ==
    /\ load_ops = <<>>
    /\ loader_events = <<>>

LoaderIdle ==
    /\ load_state = [h \in LoadHandles |-> "Unloaded"]
    /\ user_refs = [h \in LoadHandles |-> 0]
    /\ load_version = [h \in LoadHandles |-> 1]
    /\ metadata_deps = [h \in LoadHandles |-> {}]
    /\ committed_version = [h \in LoadHandles |-> 0]
    /\ reload_state = [h \in LoadHandles |-> "None"]
    /\ committed_group = {}

ImportIdle ==
    /\ source_file = [size |-> 10, contents |-> 1, modified |-> 0]
    /\ import_data_files = [a \in ImportableAssets |-> [some |-> FALSE]]
    /\ existing_asset_import_state = [a \in ImportableAssets |-> [some |-> FALSE]]
    /\ asset_import_info = [a \in ImportableAssets |-> [some |-> FALSE]]
    /\ import_outcome = [some |-> FALSE]
    /\ import_event = [import_type |-> "none"]
    /\ imported_assets = {}
    /\ mtime_changed = FALSE

SerdeIdle ==
    /\ serde_context = [uuid_to_load |-> [p \in {} |-> 0],
                        load_to_uuid |-> [p \in {} |-> 0],
                        handle_gen |-> 1,
                        current_serde_dependencies |-> {},
                        current_serde_artifact |-> [some |-> FALSE]]
    /\ serde_handles = {}
    /\ serde_event = [op |-> "none"]
    /\ built_artifact = [some |-> FALSE]

PoolIdle ==
    /\ request_queue = <<>>
    /\ worker_threads = [w \in {} |-> "idle"]
    /\ result_queue = <<>>
    /\ active_request_count = 0
    /\ requests_added = 0

IndirectIdle ==
    /\ indirection_table = [p \in {} |-> 0]
    /\ direct_refs = [h \in LoadHandles |-> 0]
    /\ rebind_pending = [some |-> FALSE]
    /\ rebind_event = [some |-> FALSE]

CancelIdle ==
    /\ load_generation = [h \in LoadHandles |-> 0]
    /\ in_flight = {}
    /\ cancel_event = [some |-> FALSE]

EditorIdle ==
    /\ root_data_set = [a \in {} |-> 0]
    /\ root_modified_objects = {}
    /\ root_pending = [some |-> FALSE]
    /\ undo_entries = 0
    /\ source_storage = [a \in {} |-> 0]
    /\ editor_pc = [op |-> "idle"]

ContextsIdle ==
    /\ edit_contexts = [k \in {} |-> 0]
    /\ contexts_opened = 0
    /\ editor_panic = "none"
    /\ open_request = [some |-> FALSE]

PopulateIdle ==
    /\ object_location = [o \in {} |-> 0]
    /\ unnamed_objects = {}
    /\ objects_to_visit = {}
    /\ populate_frames = <<>>
    /\ path_stack = {}
    /\ paths = [o \in {} |-> <<>>]
    /\ populate_call = [some |-> FALSE]
    /\ populate_ret = [some |-> FALSE]

LocationIdle ==
    /\ object_locations = [o \in {} |-> 0]
    /\ located_created = 0

TypedIdle ==
    /\ typed_objects = [d \in {} |-> 0]

ScopeIdle ==
    /\ thread_local = [t \in {} |-> 0]
    /\ scope_stack = [t \in {} |-> 0]
    /\ scope_panicked = {}
    /\ scope_event = [op |-> "none"]

BitsIdle ==
    /\ new_args = [some |-> FALSE]
    /\ new_handle = [some |-> FALSE]
    /\ is_indirect_ret = [some |-> FALSE]

BuilderIdle ==
    /\ builder_cell = [some |-> FALSE]
    /\ builder_event = [op |-> "none"]

UndoIdle ==
    /\ undo_contexts = [k \in {} |-> 0]
    /\ undo_stack = 0
    /\ undo_event = [op |-> "none"]

PoolStepIdle ==
    /\ add_request_pc = [some |-> FALSE]

GatherIdle ==
    /\ referenced_source_files = [f \in {} |-> 0]
    /\ imported_source_files = {}
    /\ gather_stack = <<>>
    /\ imports_to_queue = <<>>
    /\ gather_status = "idle"

-----------------------------------------------------------------------------
(* Schema: nexdb/src/schema *)

\* the UUIDs Uuid::new_v4() hands out, in the order it hands them out
UuidNames == <<"u1", "u2">>
Uuids == {UuidNames[i] : i \in DOMAIN UuidNames}
DecimalNames == {"0", "1", "2", "3"}

NoSchema == [kind |-> "None"]
SchemaI32 == [kind |-> "I32"]
SchemaBoolean == [kind |-> "Boolean"]
SchemaNullable(inner) == [kind |-> "Nullable", inner |-> inner]
SchemaDynamicArray(item) == [kind |-> "DynamicArray", item |-> item]

\* The record type of the modelled assets:
\*   T { x: i32, n: Nullable<i32>, xs: DynamicArray<DynamicArray<i32>> }
RecordT ==
    [kind |-> "Record",
     fields |-> [x |-> SchemaI32,
                 n |-> SchemaNullable(SchemaI32),
                 xs |-> SchemaDynamicArray(SchemaDynamicArray(SchemaI32))]]

RootSchema == [kind |-> "NamedType"]

\* SchemaRecord::field_schema
field_schema(record, name) ==
    IF name \in DOMAIN record.fields THEN record.fields[name] ELSE NoSchema

\* Schema::find_property_schema: one path segment
find_property_schema(schema, name) ==
    CASE schema.kind = "Nullable" ->
            IF name = "value" THEN schema.inner ELSE NoSchema
      [] schema.kind = "NamedType" -> field_schema(RecordT, name)
      [] schema.kind = "StaticArray" ->
            IF name \in DecimalNames THEN schema.item ELSE NoSchema
      [] schema.kind = "DynamicArray" -> schema.item
      [] schema.kind = "Map" -> schema.value
      [] OTHER -> NoSchema

RECURSIVE SchemaAt(_, _)
SchemaAt(schema, path) ==
    IF path = <<>> THEN schema
    ELSE LET s == find_property_schema(schema, Head(path))
         IN IF s.kind = "None" THEN NoSchema ELSE SchemaAt(s, Tail(path))

Prefix(path, k) == SubSeq(path, 1, k)

\* the proper prefixes of the path at which the schema is of the given kind
AncestorsOfKind(path, kind) ==
    {Prefix(path, k) : k \in {j \in 1..(Len(path) - 1) :
                                  SchemaAt(RootSchema, Prefix(path, j)).kind = kind}}

\* the schema at the path and the four lists of ancestors the walk collects
property_schema_and_path_ancestors_to_check(path) ==
    [property_schema |-> SchemaAt(RootSchema, path),
     nullable_ancestors |-> AncestorsOfKind(path, "Nullable"),
     dynamic_array_ancestors |-> AncestorsOfKind(path, "DynamicArray"),
     map_ancestors |-> AncestorsOfKind(path, "Map"),
     accessed_dynamic_array_keys |->
         {<<Prefix(path, k), path[k + 1]>> :
             k \in {j \in 1..(Len(path) - 1) :
                       SchemaAt(RootSchema, Prefix(path, j)).kind = "DynamicArray"}}]

\* The paths the operations are called with: every one resolves in the schema,
\* and every dynamic-array key is a UUID.
Paths ==
    {<<"x">>, <<"n">>, <<"n", "value">>, <<"xs">>}
        \cup {<<"xs", u>> : u \in Uuids}
        \cup {<<"xs", u, v>> : u \in Uuids, v \in Uuids}

\* the walk's result for each path, computed once
PathChecks == [path \in Paths |-> property_schema_and_path_ancestors_to_check(path)]

property_schema(path) == PathChecks[path].property_schema
nullable_ancestors(path) == PathChecks[path].nullable_ancestors
dynamic_array_ancestors(path) == PathChecks[path].dynamic_array_ancestors
map_ancestors(path) == PathChecks[path].map_ancestors
accessed_dynamic_array_keys(path) == PathChecks[path].accessed_dynamic_array_keys

-----------------------------------------------------------------------------
(* Values *)

ValueI32(v) == [variant |-> "I32", v |-> v]
ValueBoolean == [variant |-> "Boolean", v |-> 1]

Values == {ValueI32(5), ValueI32(7), ValueBoolean}

matches_schema(value, schema) == value.variant = schema.kind

default_for_schema(schema) ==
    CASE schema.kind = "I32" -> ValueI32(0)
      [] schema.kind = "Boolean" -> [variant |-> "Boolean", v |-> 0]
      [] OTHER -> [variant |-> schema.kind, v |-> 0]

-----------------------------------------------------------------------------
(* DataSet: nexdb/src/database/data_set.rs *)

ObjectIds == 1..MaxObjects
NoObject == 0
None == [some |-> FALSE]
Some(v) == [some |-> TRUE, v |-> v]

EmptyMap == [p \in {} |-> 0]
MapInsert(m, k, v) == [p \in DOMAIN m \cup {k} |-> IF p = k THEN v ELSE m[p]]
MapRemove(m, k) == [p \in DOMAIN m \ {k} |-> m[p]]

DataObjectInfo(prototype) ==
    [prototype |-> prototype,
     properties |-> EmptyMap,
     property_null_overrides |-> EmptyMap,
     properties_in_replace_mode |-> {},
     dynamic_array_entries |-> EmptyMap]

\* every order a HashSet<Uuid> may be iterated in
RECURSIVE Orderings(_)
Orderings(S) ==
    IF S = {} THEN {<<>>}
    ELSE UNION {{<<e>> \o rest : rest \in Orderings(S \ {e})} : e \in S}

Range(seq) == {seq[i] : i \in DOMAIN seq}

contains(results, key) == \A s \in results : key \in Range(s)

RECURSIVE find_null_override_skips_non_null(_, _, _)
\* a walk that stops only at SetNull
find_null_override_skips_non_null(objs, id, path) ==
    IF id = NoObject THEN Some(TRUE)
    ELSE IF /\ path \in DOMAIN objs[id].property_null_overrides
            /\ objs[id].property_null_overrides[path] = "SetNull"
         THEN Some(TRUE)
         ELSE find_null_override_skips_non_null(objs, objs[id].prototype, path)

RECURSIVE find_null_override(_, _, _)
\* resolve_is_null's walk of the prototype chain
find_null_override(objs, id, path) ==
    IF id = NoObject THEN Some(TRUE)
    ELSE IF path \in DOMAIN objs[id].property_null_overrides
         THEN Some(objs[id].property_null_overrides[path] = "SetNull")
         ELSE find_null_override(objs, objs[id].prototype, path)

RECURSIVE find_property_override_prototype_first(_, _, _)
\* a walk that lets the prototype's override win over the object's own
find_property_override_prototype_first(objs, id, path) ==
    IF id = NoObject THEN None
    ELSE LET inherited ==
                 find_property_override_prototype_first(objs, objs[id].prototype, path)
         IN IF inherited.some THEN inherited
            ELSE IF path \in DOMAIN objs[id].properties
                 THEN Some(objs[id].properties[path])
                 ELSE IF objs[id].prototype = NoObject
                      THEN None
                      ELSE inherited

find_property_override_farthest(objs, id, path) ==
    LET r == find_property_override_prototype_first(objs, id, path)
    IN IF r.some THEN r ELSE Some(default_for_schema(property_schema(path)))

RECURSIVE find_property_override(_, _, _)
\* resolve_property's walk of the prototype chain
find_property_override(objs, id, path) ==
    IF id = NoObject THEN Some(default_for_schema(property_schema(path)))
    ELSE IF path \in DOMAIN objs[id].properties
         THEN Some(objs[id].properties[path])
         ELSE find_property_override(objs, objs[id].prototype, path)

RECURSIVE do_resolve_dynamic_array_ignoring_ancestors(_, _, _)
\* a merge that looks for replace mode at the path only, not at its ancestors
do_resolve_dynamic_array_ignoring_ancestors(objs, id, path) ==
    LET obj == objs[id]
        inherited ==
            IF path \notin obj.properties_in_replace_mode /\ obj.prototype # NoObject
            THEN do_resolve_dynamic_array_ignoring_ancestors(objs, obj.prototype, path)
            ELSE {<<>>}
        own ==
            IF path \in DOMAIN obj.dynamic_array_entries
            THEN Orderings(obj.dynamic_array_entries[path])
            ELSE {<<>>}
    IN {i \o o : i \in inherited, o \in own}

RECURSIVE do_resolve_dynamic_array(_, _, _)
\* the possible contents of resolved_entries: the prototype's entries (unless
\* replaced) and then this object's, each set in any iteration order
do_resolve_dynamic_array(objs, id, path) ==
    LET obj == objs[id]
        check_parents ==
            ~(\E p \in dynamic_array_ancestors(path) \cup map_ancestors(path) \cup {path} :
                  p \in obj.properties_in_replace_mode)
        inherited ==
            IF check_parents /\ obj.prototype # NoObject
            THEN do_resolve_dynamic_array(objs, obj.prototype, path)
            ELSE {<<>>}
        own ==
            IF path \in DOMAIN obj.dynamic_array_entries
            THEN Orderings(obj.dynamic_array_entries[path])
            ELSE {<<>>}
    IN {i \o o : i \in inherited, o \in own}

RECURSIVE resolve_is_null(_, _, _), resolve_dynamic_array(_, _, _)

\* the ancestor checks shared by every resolution routine and by
\* set_property_override: no nullable ancestor is null, every accessed
\* dynamic-array key is a resolved entry
ancestors_resolve(objs, id, path) ==
    /\ \A a \in nullable_ancestors(path) : resolve_is_null(objs, id, a) = Some(FALSE)
    /\ \A k \in accessed_dynamic_array_keys(path) :
           contains(resolve_dynamic_array(objs, id, k[1]), k[2])

resolve_is_null(objs, id, path) ==
    IF property_schema(path).kind # "Nullable" THEN None
    ELSE IF ~ancestors_resolve(objs, id, path) THEN None
    ELSE find_null_override(objs, id, path)

\* the set of slices resolve_dynamic_array may return
resolve_dynamic_array(objs, id, path) ==
    IF ~ancestors_resolve(objs, id, path) THEN {<<>>}
    ELSE do_resolve_dynamic_array(objs, id, path)

\* a resolve_property that walks the prototype chain without looking at the
\* nullable ancestors
resolve_property_unchecked_nullable(objs, id, path) ==
    IF \E k \in accessed_dynamic_array_keys(path) :
           ~contains(resolve_dynamic_array(objs, id, k[1]), k[2])
    THEN None
    ELSE find_property_override(objs, id, path)

\* resolve_property: None for a path that does not resolve at the object
resolve_property(objs, id, path) ==
    IF ~ancestors_resolve(objs, id, path) THEN None
    ELSE find_property_override(objs, id, path)

\* a set_property_override that does not look at the accessed dynamic-array keys
set_property_override_unchecked_keys(objs, id, path, value) ==
    IF ~matches_schema(value, property_schema(path))
    THEN [ret |-> FALSE, objects |-> objs]
    ELSE IF \E a \in nullable_ancestors(path) : resolve_is_null(objs, id, a) # Some(FALSE)
    THEN [ret |-> FALSE, objects |-> objs]
    ELSE [ret |-> TRUE,
          objects |-> [objs EXCEPT ![id].properties = MapInsert(@, path, value)]]

\* returns [ret, objects]: the bool returned and the data set afterwards
set_property_override(objs, id, path, value) ==
    IF ~matches_schema(value, property_schema(path))
    THEN [ret |-> FALSE, objects |-> objs]
    ELSE IF ~ancestors_resolve(objs, id, path)
    THEN [ret |-> FALSE, objects |-> objs]
    ELSE [ret |-> TRUE,
          objects |-> [objs EXCEPT ![id].properties = MapInsert(@, path, value)]]

\* returns [ret, objects]: the removed value, if any, and the data set afterwards
remove_property_override(objs, id, path) ==
    [ret |-> IF path \in DOMAIN objs[id].properties
             THEN Some(objs[id].properties[path]) ELSE None,
     objects |-> [objs EXCEPT ![id].properties = MapRemove(@, path)]]

\* returns the data set afterwards
apply_property_override_to_prototype(objs, id, path) ==
    LET prototype_id == objs[id].prototype
        removed == remove_property_override(objs, id, path)
    IN IF prototype_id = NoObject THEN objs
       ELSE IF removed.ret.some
            THEN set_property_override(removed.objects, prototype_id, path,
                                       removed.ret.v).objects
            ELSE removed.objects

set_null_override(objs, id, path, null_override) ==
    IF property_schema(path).kind = "Nullable"
    THEN [objs EXCEPT ![id].property_null_overrides = MapInsert(@, path, null_override)]
    ELSE objs

remove_null_override(objs, id, path) ==
    IF property_schema(path).kind = "Nullable"
    THEN [objs EXCEPT ![id].property_null_overrides = MapRemove(@, path)]
    ELSE objs

add_dynamic_array_override(objs, id, path, new_uuid) ==
    [objs EXCEPT ![id].dynamic_array_entries =
        MapInsert(@, path, (IF path \in DOMAIN @ THEN @[path] ELSE {}) \cup {new_uuid})]

remove_dynamic_array_override(objs, id, path, element_id) ==
    IF path \in DOMAIN objs[id].dynamic_array_entries
    THEN [objs EXCEPT ![id].dynamic_array_entries[path] = @ \ {element_id}]
    ELSE objs

set_override_behavior(objs, id, path, behavior) ==
    IF behavior = "Append"
    THEN [objs EXCEPT ![id].properties_in_replace_mode = @ \ {path}]
    ELSE [objs EXCEPT ![id].properties_in_replace_mode = @ \cup {path}]

-----------------------------------------------------------------------------
(* The DataSet operations as actions *)

UsedUuids(objs) ==
    UNION {UNION {objs[id].dynamic_array_entries[p] :
                      p \in DOMAIN objs[id].dynamic_array_entries} : id \in DOMAIN objs}

\* Uuid::new_v4(): a UUID no entry of the data set holds yet
FreshUuids(objs) ==
    LET unused == {i \in DOMAIN UuidNames : UuidNames[i] \notin UsedUuids(objs)}
    IN {UuidNames[i] : i \in {j \in unused : \A k \in unused : j <= k}}

\* insert_object's new ObjectId
FreshObjectIds(objs) ==
    {i \in ObjectIds \ DOMAIN objs : \A k \in ObjectIds \ DOMAIN objs : i <= k}

DynamicArrayPaths == {p \in Paths : property_schema(p).kind = "DynamicArray"}

NewObject ==
    /\ ops < MaxOps
    /\ \E id \in FreshObjectIds(objects) :
           objects' = [i \in DOMAIN objects \cup {id} |->
                          IF i = id THEN DataObjectInfo(NoObject) ELSE objects[i]]
    /\ ops' = ops + 1
    /\ UNCHANGED <<handle_vars, load_op_vars, loader_vars, import_vars, serde_vars, pool_vars, indirect_vars, cancel_vars, editor_vars, ctx_vars, populate_vars, location_vars, typed_vars, scope_vars, bits_vars, builder_vars, undo_vars, poolstep_vars, gather_vars>>

NewObjectFromPrototype ==
    /\ ops < MaxOps
    /\ \E prototype \in DOMAIN objects, id \in FreshObjectIds(objects) :
           objects' = [i \in DOMAIN objects \cup {id} |->
                          IF i = id THEN DataObjectInfo(prototype) ELSE objects[i]]
    /\ ops' = ops + 1
    /\ UNCHANGED <<handle_vars, load_op_vars, loader_vars, import_vars, serde_vars, pool_vars, indirect_vars, cancel_vars, editor_vars, ctx_vars, populate_vars, location_vars, typed_vars, scope_vars, bits_vars, builder_vars, undo_vars, poolstep_vars, gather_vars>>

SetPropertyOverride ==
    /\ ops < MaxOps
    /\ \E id \in DOMAIN objects, path \in Paths, value \in Values :
           objects' = set_property_override(objects, id, path, value).objects
    /\ ops' = ops + 1
    /\ UNCHANGED <<handle_vars, load_op_vars, loader_vars, import_vars, serde_vars, pool_vars, indirect_vars, cancel_vars, editor_vars, ctx_vars, populate_vars, location_vars, typed_vars, scope_vars, bits_vars, builder_vars, undo_vars, poolstep_vars, gather_vars>>

RemovePropertyOverride ==
    /\ ops < MaxOps
    /\ \E id \in DOMAIN objects, path \in Paths :
           objects' = remove_property_override(objects, id, path).objects
    /\ ops' = ops + 1
    /\ UNCHANGED <<handle_vars, load_op_vars, loader_vars, import_vars, serde_vars, pool_vars, indirect_vars, cancel_vars, editor_vars, ctx_vars, populate_vars, location_vars, typed_vars, scope_vars, bits_vars, builder_vars, undo_vars, poolstep_vars, gather_vars>>

ApplyPropertyOverrideToPrototype ==
    /\ ops < MaxOps
    /\ \E id \in DOMAIN objects, path \in Paths :
           objects' = apply_property_override_to_prototype(objects, id, path)
    /\ ops' = ops + 1
    /\ UNCHANGED <<handle_vars, load_op_vars, loader_vars, import_vars, serde_vars, pool_vars, indirect_vars, cancel_vars, editor_vars, ctx_vars, populate_vars, location_vars, typed_vars, scope_vars, bits_vars, builder_vars, undo_vars, poolstep_vars, gather_vars>>

SetNullOverride ==
    /\ ops < MaxOps
    /\ \E id \in DOMAIN objects, path \in Paths, o \in {"SetNull", "SetNonNull"} :
           objects' = set_null_override(objects, id, path, o)
    /\ ops' = ops + 1
    /\ UNCHANGED <<handle_vars, load_op_vars, loader_vars, import_vars, serde_vars, pool_vars, indirect_vars, cancel_vars, editor_vars, ctx_vars, populate_vars, location_vars, typed_vars, scope_vars, bits_vars, builder_vars, undo_vars, poolstep_vars, gather_vars>>

RemoveNullOverride ==
    /\ ops < MaxOps
    /\ \E id \in DOMAIN objects, path \in Paths :
           objects' = remove_null_override(objects, id, path)
    /\ ops' = ops + 1
    /\ UNCHANGED <<handle_vars, load_op_vars, loader_vars, import_vars, serde_vars, pool_vars, indirect_vars, cancel_vars, editor_vars, ctx_vars, populate_vars, location_vars, typed_vars, scope_vars, bits_vars, builder_vars, undo_vars, poolstep_vars, gather_vars>>

\* panics unless the path is a dynamic array
AddDynamicArrayOverride ==
    /\ ops < MaxOps
    /\ \E id \in DOMAIN objects, path \in DynamicArrayPaths, u \in FreshUuids(objects) :
           objects' = add_dynamic_array_override(objects, id, path, u)
    /\ ops' = ops + 1
    /\ UNCHANGED <<handle_vars, load_op_vars, loader_vars, import_vars, serde_vars, pool_vars, indirect_vars, cancel_vars, editor_vars, ctx_vars, populate_vars, location_vars, typed_vars, scope_vars, bits_vars, builder_vars, undo_vars, poolstep_vars, gather_vars>>

\* panics unless the path is a dynamic array, and when the object has an entry
\* set for the path that does not hold the element
RemoveDynamicArrayOverride ==
    /\ ops < MaxOps
    /\ \E id \in DOMAIN objects, path \in DynamicArrayPaths, u \in Uuids :
           /\ path \in DOMAIN objects[id].dynamic_array_entries
                  => u \in objects[id].dynamic_array_entries[path]
           /\ objects' = remove_dynamic_array_override(objects, id, path, u)
    /\ ops' = ops + 1
    /\ UNCHANGED <<handle_vars, load_op_vars, loader_vars, import_vars, serde_vars, pool_vars, indirect_vars, cancel_vars, editor_vars, ctx_vars, populate_vars, location_vars, typed_vars, scope_vars, bits_vars, builder_vars, undo_vars, poolstep_vars, gather_vars>>

\* panics unless the path is a dynamic array or a map
SetOverrideBehavior ==
    /\ ops < MaxOps
    /\ \E id \in DOMAIN objects, path \in DynamicArrayPaths, b \in {"Append", "Replace"} :
           objects' = set_override_behavior(objects, id, path, b)
    /\ ops' = ops + 1
    /\ UNCHANGED <<handle_vars, load_op_vars, loader_vars, import_vars, serde_vars, pool_vars, indirect_vars, cancel_vars, editor_vars, ctx_vars, populate_vars, location_vars, typed_vars, scope_vars, bits_vars, builder_vars, undo_vars, poolstep_vars, gather_vars>>

InitDataSet ==
    DataSetIdle /\ HandleIdle /\ LoadOpIdle /\ LoaderIdle /\ ImportIdle /\ SerdeIdle /\ PoolIdle /\ IndirectIdle /\ CancelIdle /\ EditorIdle /\ ContextsIdle /\ PopulateIdle /\ LocationIdle /\ TypedIdle /\ ScopeIdle /\ BitsIdle /\ BuilderIdle /\ UndoIdle /\ PoolStepIdle /\ GatherIdle

NextDataSet ==
    \/ NewObject
    \/ NewObjectFromPrototype
    \/ SetPropertyOverride
    \/ RemovePropertyOverride
    \/ ApplyPropertyOverrideToPrototype
    \/ SetNullOverride
    \/ RemoveNullOverride
    \/ AddDynamicArrayOverride
    \/ RemoveDynamicArrayOverride
    \/ SetOverrideBehavior

SpecDataSet == InitDataSet /\ [][NextDataSet]_vars

-----------------------------------------------------------------------------
(* Claims about the data set *)

RECURSIVE PrototypeChain(_, _)
\* id, its prototype, that one's prototype, ...
PrototypeChain(objs, id) ==
    IF id = NoObject THEN <<>> ELSE <<id>> \o PrototypeChain(objs, objs[id].prototype)

Min(S) == CHOOSE m \in S : \A k \in S : m <= k

\* the position in the chain of the first asset that has an override at the path
FirstOverride(objs, chain, path) ==
    LET hits == {i \in 1..Len(chain) : path \in DOMAIN objs[chain[i]].properties}
    IN IF hits = {} THEN 0 ELSE Min(hits)

\* C1: for every asset and every path resolvable at it, resolve_property
\* returns the override of the first asset of the prototype chain that has one,
\* and the schema default when none has.
C1_NearestOverrideWins ==
    \A id \in DOMAIN objects, path \in Paths :
        ancestors_resolve(objects, id, path) =>
            LET chain == PrototypeChain(objects, id)
                first == FirstOverride(objects, chain, path)
            IN resolve_property(objects, id, path) =
                   IF first = 0
                   THEN Some(default_for_schema(property_schema(path)))
                   ELSE Some(objects[chain[first]].properties[path])

\* an asset and its prototype override x differently and the asset's value wins
C1_Witness ==
    \E id \in DOMAIN objects :
        /\ objects[id].prototype # NoObject
        /\ <<"x">> \in DOMAIN objects[id].properties
        /\ <<"x">> \in DOMAIN objects[objects[id].prototype].properties
        /\ objects[id].properties[<<"x">>] # objects[objects[id].prototype].properties[<<"x">>]
        /\ resolve_property(objects, id, <<"x">>) = Some(objects[id].properties[<<"x">>])

InReplaceMode(objs, id, path) ==
    \E p \in dynamic_array_ancestors(path) \cup map_ancestors(path) \cup {path} :
        p \in objs[id].properties_in_replace_mode

OwnEntries(objs, id, path) ==
    IF path \in DOMAIN objs[id].dynamic_array_entries
    THEN objs[id].dynamic_array_entries[path] ELSE {}

Concat(A, B) == {a \o b : a \in A, b \in B}

\* C2 as stated: resolve_dynamic_array(A,P) is what resolve_dynamic_array gives
\* for A's prototype followed by A's own entries, unless P or an ancestor of P
\* is in replace mode on A, and then it is A's own entries.
C2_PrototypeThenOwn ==
    \A id \in DOMAIN objects, path \in DynamicArrayPaths :
        resolve_dynamic_array(objects, id, path) =
            IF InReplaceMode(objects, id, path) \/ objects[id].prototype = NoObject
            THEN Orderings(OwnEntries(objects, id, path))
            ELSE Concat(resolve_dynamic_array(objects, objects[id].prototype, path),
                        Orderings(OwnEntries(objects, id, path)))

RECURSIVE MergedEntries(_, _, _, _)
\* the own entries of chain[i..1], the farthest asset first
MergedEntries(objs, chain, i, path) ==
    IF i = 0 THEN {<<>>}
    ELSE Concat(Orderings(OwnEntries(objs, chain[i], path)),
                MergedEntries(objs, chain, i - 1, path))

\* C2 (amended): for P resolvable at A the result is the own entries of the
\* assets of A's prototype chain from A up to the first one that has P or an
\* ancestor of P in replace mode, the farthest first and A's own last (each
\* asset's entries in the iteration order of its set); no prototype is checked
\* for resolvability; for P not resolvable at A the result is empty.
C2_MergeUpToReplace ==
    \A id \in DOMAIN objects, path \in DynamicArrayPaths :
        LET chain == PrototypeChain(objects, id)
            cuts == {i \in 1..Len(chain) : InReplaceMode(objects, chain[i], path)}
            last == IF cuts = {} THEN Len(chain) ELSE Min(cuts)
        IN resolve_dynamic_array(objects, id, path) =
               IF ancestors_resolve(objects, id, path)
               THEN MergedEntries(objects, chain, last, path)
               ELSE {<<>>}

\* a child that appended an entry to xs, of which its prototype holds another,
\* has xs in replace mode and resolves xs to its own entry alone
C2_Witness ==
    \E id \in DOMAIN objects :
        /\ objects[id].prototype # NoObject
        /\ <<"xs">> \in objects[id].properties_in_replace_mode
        /\ OwnEntries(objects, id, <<"xs">>) # {}
        /\ OwnEntries(objects, objects[id].prototype, <<"xs">>) # {}
        /\ resolve_dynamic_array(objects, id, <<"xs">>)
               = Orderings(OwnEntries(objects, id, <<"xs">>))

\* the three cases in which set_property_override must reject
SchemaMismatch(path, value) == value.variant # property_schema(path).kind

NullAncestor(objs, id, path) ==
    \E a \in nullable_ancestors(path) : resolve_is_null(objs, id, a) # Some(FALSE)

MissingKey(objs, id, path) ==
    \E k \in accessed_dynamic_array_keys(path) :
        \E s \in resolve_dynamic_array(objs, id, k[1]) : k[2] \notin Range(s)

\* C8: set_property_override returns false and leaves the data set as it was
\* when the value's variant does not match the schema at the path, when a
\* nullable ancestor does not resolve to non-null, and when the path goes
\* through a dynamic-array entry that is not in the resolved entry list.
C8_RejectedSetChangesNothing ==
    \A id \in DOMAIN objects, path \in Paths, value \in Values :
        (\/ SchemaMismatch(path, value)
         \/ NullAncestor(objects, id, path)
         \/ MissingKey(objects, id, path))
            => LET r == set_property_override(objects, id, path, value)
               IN r.ret = FALSE /\ r.objects = objects

\* an asset holding overrides on which set_property_override returns false
\* for each of the three reasons alone
C8_Witness ==
    \E id \in DOMAIN objects :
        /\ DOMAIN objects[id].properties # {}
        /\ \E path \in Paths, value \in Values :
               /\ SchemaMismatch(path, value)
               /\ ~NullAncestor(objects, id, path)
               /\ ~MissingKey(objects, id, path)
               /\ ~set_property_override(objects, id, path, value).ret
        /\ \E path \in Paths, value \in Values :
               /\ ~SchemaMismatch(path, value)
               /\ NullAncestor(objects, id, path)
               /\ ~set_property_override(objects, id, path, value).ret
        /\ \E path \in Paths, value \in Values :
               /\ ~SchemaMismatch(path, value)
               /\ ~NullAncestor(objects, id, path)
               /\ MissingKey(objects, id, path)
               /\ ~set_property_override(objects, id, path, value).ret

\* C9: apply_property_override_to_prototype(A,P) either moves A's override at P
\* onto A's prototype or leaves the data set unchanged.
C9_ApplyToPrototypeAllOrNothing ==
    \A id \in DOMAIN objects, path \in Paths :
        LET after == apply_property_override_to_prototype(objects, id, path)
            prototype_id == objects[id].prototype
        IN \/ after = objects
           \/ /\ prototype_id # NoObject
              /\ path \in DOMAIN objects[id].properties
              /\ path \notin DOMAIN after[id].properties
              /\ path \in DOMAIN after[prototype_id].properties
              /\ after[prototype_id].properties[path] = objects[id].properties[path]

\* the position in the chain of the first asset that has a null override at the path
FirstNullOverride(objs, chain, path) ==
    LET hits == {i \in 1..Len(chain) :
                     path \in DOMAIN objs[chain[i]].property_null_overrides}
    IN IF hits = {} THEN 0 ELSE Min(hits)

\* C10: for a resolvable nullable path, resolve_is_null is the state set by the
\* first asset of the prototype chain that holds a null override at the path
\* (null for SetNull, non-null for SetNonNull), and null when none holds one.
C10_NearestNullOverrideWins ==
    \A id \in DOMAIN objects, path \in Paths :
        (property_schema(path).kind = "Nullable" /\ ancestors_resolve(objects, id, path)) =>
            LET chain == PrototypeChain(objects, id)
                first == FirstNullOverride(objects, chain, path)
            IN resolve_is_null(objects, id, path) =
                   IF first = 0 THEN Some(TRUE)
                   ELSE IF objects[chain[first]].property_null_overrides[path] = "SetNull"
                        THEN Some(TRUE) ELSE Some(FALSE)

\* an asset set non-null what its prototype set null, and resolves to non-null
C10_Witness ==
    \E id \in DOMAIN objects :
        /\ objects[id].prototype # NoObject
        /\ <<"n">> \in DOMAIN objects[id].property_null_overrides
        /\ <<"n">> \in DOMAIN objects[objects[id].prototype].property_null_overrides
        /\ objects[id].property_null_overrides[<<"n">>] = "SetNonNull"
        /\ objects[objects[id].prototype].property_null_overrides[<<"n">>] = "SetNull"
        /\ resolve_is_null(objects, id, <<"n">>) = Some(FALSE)

\* C11: resolve_property(A,P) is unresolvable whenever a nullable ancestor of P
\* does not resolve to non-null on A or P goes through a dynamic-array entry
\* that is not in the resolved entry list on A; n.value is unresolvable while
\* no asset of A's chain holds a null override at n, and once A has set n
\* non-null a set_property_override(A, n.value, v) succeeds and
\* resolve_property(A, n.value) returns v.
C11_UnresolvableUnlessAncestorsResolve ==
    \A id \in DOMAIN objects :
        /\ \A path \in Paths :
               (NullAncestor(objects, id, path) \/ MissingKey(objects, id, path))
                   => resolve_property(objects, id, path) = None
        /\ FirstNullOverride(objects, PrototypeChain(objects, id), <<"n">>) = 0
               => resolve_property(objects, id, <<"n", "value">>) = None
        /\ LET non_null == set_null_override(objects, id, <<"n">>, "SetNonNull")
           IN \A value \in {v \in Values : v.variant = "I32"} :
                  LET r == set_property_override(non_null, id, <<"n", "value">>, value)
                  IN /\ r.ret
                     /\ resolve_property(r.objects, id, <<"n", "value">>) = Some(value)

\* one asset has set n non-null and overrides n.value, which resolves to the
\* override; on another n is in its default state and n.value is unresolvable;
\* a path through an entry that xs does not hold is unresolvable too
C11_Witness ==
    /\ \E id \in DOMAIN objects :
           /\ <<"n">> \in DOMAIN objects[id].property_null_overrides
           /\ objects[id].property_null_overrides[<<"n">>] = "SetNonNull"
           /\ <<"n", "value">> \in DOMAIN objects[id].properties
           /\ resolve_property(objects, id, <<"n", "value">>)
                  = Some(objects[id].properties[<<"n", "value">>])
    /\ \E id \in DOMAIN objects :
           /\ FirstNullOverride(objects, PrototypeChain(objects, id), <<"n">>) = 0
           /\ resolve_property(objects, id, <<"n", "value">>) = None
           /\ \E path \in Paths :
                  /\ MissingKey(objects, id, path)
                  /\ ~NullAncestor(objects, id, path)
                  /\ resolve_property(objects, id, path) = None

\* C12: when asset C has a prototype and a local override v at P, then after
\* apply_property_override_to_prototype(C,P) the prototype's local override at
\* P is v, C has none at P and resolve_property of C and of the prototype at P
\* is v; when C has no prototype or no local override at P nothing changes.
C12_ApplyMovesOverrideToPrototype ==
    \A id \in DOMAIN objects, path \in Paths :
        LET after == apply_property_override_to_prototype(objects, id, path)
            prototype_id == objects[id].prototype
        IN IF prototype_id # NoObject /\ path \in DOMAIN objects[id].properties
           THEN LET v == objects[id].properties[path]
                IN /\ path \in DOMAIN after[prototype_id].properties
                   /\ after[prototype_id].properties[path] = v
                   /\ path \notin DOMAIN after[id].properties
                   /\ resolve_property(after, id, path) = Some(v)
                   /\ resolve_property(after, prototype_id, path) = Some(v)
           ELSE after = objects

\* the members of a set of UUIDs in the order Uuid::new_v4() handed them out,
\* which is the order add_dynamic_array_override added them in
RECURSIVE InsertionOrder(_, _)
InsertionOrder(S, i) ==
    IF i > Len(UuidNames) THEN <<>>
    ELSE (IF UuidNames[i] \in S THEN <<UuidNames[i]>> ELSE <<>>)
             \o InsertionOrder(S, i + 1)

\* C13: the sequence resolve_dynamic_array returns is stable, that is, the
\* operations that built the data set determine it: there is one possible
\* result, and for a resolvable path it ends with the asset's own entries in
\* the order they were added.
C13_StableInsertionOrder ==
    \A id \in DOMAIN objects, path \in DynamicArrayPaths :
        LET results == resolve_dynamic_array(objects, id, path)
            own == InsertionOrder(OwnEntries(objects, id, path), 1)
        IN /\ Cardinality(results) = 1
           /\ ancestors_resolve(objects, id, path) =>
                  \A s \in results :
                      /\ Len(s) >= Len(own)
                      /\ SubSeq(s, Len(s) - Len(own) + 1, Len(s)) = own

-----------------------------------------------------------------------------
(* Handles: hydrate-base/src/handle.rs *)

\* HandleRefType, but for None, which no HandleRef holds outside drop()
RefTypes == {"Strong", "Weak", "Internal"}

Decrease(id) == [op |-> "Decrease", id |-> id]
Increase(id) == [op |-> "Increase", id |-> id]

HandleRef(id, ref_type) == [id |-> id, ref_type |-> ref_type, dropped |-> FALSE]

\* Handle::new
Handle_new(handle) == HandleRef(handle, "Strong")

\* Handle::new_internal
Handle_new_internal(handle) == HandleRef(handle, "Internal")

\* a drop that sends a Decrease whatever the reference type
HandleRef_drop_always_decreases(self, chan) ==
    [self |-> [self EXCEPT !.ref_type = "Weak", !.dropped = TRUE],
     chan |-> Append(chan, Decrease(self.id))]

\* impl Drop for HandleRef: [self, chan], the HandleRef and the channel afterwards
HandleRef_drop(self, chan) ==
    IF self.ref_type = "Strong"
    THEN [self |-> [self EXCEPT !.ref_type = "Weak", !.dropped = TRUE],
          chan |-> Append(chan, Decrease(self.id))]
    ELSE [self |-> [self EXCEPT !.dropped = TRUE], chan |-> chan]

\* a clone that copies the reference type
HandleRef_clone_same_type(self, chan) ==
    IF self.ref_type = "Strong"
    THEN [clone |-> HandleRef(self.id, "Strong"),
          chan |-> Append(chan, Increase(self.id))]
    ELSE [clone |-> HandleRef(self.id, self.ref_type), chan |-> chan]

\* impl Clone for HandleRef: [clone, chan], the new HandleRef and the channel afterwards
HandleRef_clone(self, chan) ==
    IF self.ref_type \in {"Internal", "Strong"}
    THEN [clone |-> HandleRef(self.id, "Strong"),
          chan |-> Append(chan, Increase(self.id))]
    ELSE [clone |-> HandleRef(self.id, "Weak"), chan |-> chan]

\* what an operation appended to the channel
Sent(before, after) == SubSeq(after, Len(before) + 1, Len(after))

HandleNew ==
    /\ Len(handles) < MaxHandles
    /\ \E handle \in LoadHandles :
           /\ handles' = Append(handles, Handle_new(handle))
           /\ handle_event' = [op |-> "new", id |-> handle, ref_type |-> "Strong",
                               sent |-> <<>>, yields |-> "Strong"]
    /\ UNCHANGED <<ref_ops, ref_op_senders, ds_vars, load_op_vars, loader_vars, import_vars, serde_vars, pool_vars, indirect_vars, cancel_vars, editor_vars, ctx_vars, populate_vars, location_vars, typed_vars, scope_vars, bits_vars, builder_vars, undo_vars, poolstep_vars, gather_vars>>

HandleNewInternal ==
    /\ Len(handles) < MaxHandles
    /\ \E handle \in LoadHandles :
           /\ handles' = Append(handles, Handle_new_internal(handle))
           /\ handle_event' = [op |-> "new_internal", id |-> handle, ref_type |-> "Internal",
                               sent |-> <<>>, yields |-> "Internal"]
    /\ UNCHANGED <<ref_ops, ref_op_senders, ds_vars, load_op_vars, loader_vars, import_vars, serde_vars, pool_vars, indirect_vars, cancel_vars, editor_vars, ctx_vars, populate_vars, location_vars, typed_vars, scope_vars, bits_vars, builder_vars, undo_vars, poolstep_vars, gather_vars>>

HandleClone ==
    /\ Len(handles) < MaxHandles
    /\ \E i \in DOMAIN handles :
           /\ ~handles[i].dropped
           /\ LET r == HandleRef_clone(handles[i], ref_ops)
              IN /\ handles' = Append(handles, r.clone)
                 /\ ref_ops' = r.chan
                 /\ ref_op_senders' = ref_op_senders
                        \o [j \in 1..Len(Sent(ref_ops, r.chan)) |-> i]
                 /\ handle_event' = [op |-> "clone", id |-> handles[i].id,
                                     ref_type |-> handles[i].ref_type,
                                     sent |-> Sent(ref_ops, r.chan),
                                     yields |-> r.clone.ref_type]
    /\ UNCHANGED <<ds_vars, load_op_vars, loader_vars, import_vars, serde_vars, pool_vars, indirect_vars, cancel_vars, editor_vars, ctx_vars, populate_vars, location_vars, typed_vars, scope_vars, bits_vars, builder_vars, undo_vars, poolstep_vars, gather_vars>>

HandleDrop ==
    /\ \E i \in DOMAIN handles :
           /\ ~handles[i].dropped
           /\ LET r == HandleRef_drop(handles[i], ref_ops)
              IN /\ handles' = [handles EXCEPT ![i] = r.self]
                 /\ ref_ops' = r.chan
                 /\ ref_op_senders' = ref_op_senders
                        \o [j \in 1..Len(Sent(ref_ops, r.chan)) |-> i]
                 /\ handle_event' = [op |-> "drop", id |-> handles[i].id,
                                     ref_type |-> handles[i].ref_type,
                                     sent |-> Sent(ref_ops, r.chan),
                                     yields |-> r.self.ref_type]
    /\ UNCHANGED <<ds_vars, load_op_vars, loader_vars, import_vars, serde_vars, pool_vars, indirect_vars, cancel_vars, editor_vars, ctx_vars, populate_vars, location_vars, typed_vars, scope_vars, bits_vars, builder_vars, undo_vars, poolstep_vars, gather_vars>>

\* the first HandleRef is of any of the reference types
InitHandle ==
    /\ \E id \in LoadHandles, ref_type \in RefTypes : handles = <<HandleRef(id, ref_type)>>
    /\ ref_ops = <<>>
    /\ handle_event = [op |-> "none"]
    /\ ref_op_senders = <<>>
    /\ DataSetIdle /\ LoadOpIdle /\ LoaderIdle /\ ImportIdle /\ SerdeIdle /\ PoolIdle /\ IndirectIdle /\ CancelIdle /\ EditorIdle /\ ContextsIdle /\ PopulateIdle /\ LocationIdle /\ TypedIdle /\ ScopeIdle /\ BitsIdle /\ BuilderIdle /\ UndoIdle /\ PoolStepIdle /\ GatherIdle

NextHandle ==
    \/ HandleNew
    \/ HandleNewInternal
    \/ HandleClone
    \/ HandleDrop

SpecHandle == InitHandle /\ [][NextHandle]_vars

\* C3: a drop sends one Decrease of the handle's load handle when the handle is
\* Strong and nothing when it is Weak or Internal; a clone of a Strong or an
\* Internal handle sends one Increase of the load handle and yields a Strong
\* handle; a clone of a Weak handle sends nothing and yields a Weak handle.
C3_DropAndCloneRefOps ==
    /\ handle_event.op = "drop" =>
           handle_event.sent = IF handle_event.ref_type = "Strong"
                               THEN <<Decrease(handle_event.id)>> ELSE <<>>
    /\ handle_event.op = "clone" =>
           IF handle_event.ref_type \in {"Strong", "Internal"}
           THEN /\ handle_event.sent = <<Increase(handle_event.id)>>
                /\ handle_event.yields = "Strong"
                /\ handles[Len(handles)] = HandleRef(handle_event.id, "Strong")
           ELSE /\ handle_event.sent = <<>>
                /\ handle_event.yields = "Weak"
                /\ handles[Len(handles)] = HandleRef(handle_event.id, "Weak")

\* an Internal handle has just been cloned into a Strong one, after the drop of
\* a Strong handle sent its Decrease
C3_Witness ==
    /\ handle_event.op = "clone"
    /\ handle_event.ref_type = "Internal"
    /\ handle_event.yields = "Strong"
    /\ ref_ops = <<Decrease(handles[1].id), Increase(handle_event.id)>>

\* one handle and the handles derived from it by clone()
NextHandleFamily ==
    \/ HandleClone
    \/ HandleDrop

SpecHandleFamily == InitHandle /\ [][NextHandleFamily]_vars

\* the number of RefOps of the kind among the first k of the stream
CountRefOps(kind, k) == Cardinality({j \in 1..k : ref_ops[j].op = kind})

\* the Decreases sent by the drops of clones: handles[1] is the first handle
CloneDecreases ==
    Cardinality({j \in DOMAIN ref_ops :
                     ref_ops[j].op = "Decrease" /\ ref_op_senders[j] > 1})

\* C14: for the handles derived from one handle by any clones and drops, every
\* RefOp is for that handle's load handle; in every prefix of the stream the
\* Decreases are at most one more than the Increases; and once every clone is
\* dropped, the clones have sent as many Decreases as cloning sent Increases.
C14_PairedRefOps ==
    /\ \A j \in DOMAIN ref_ops : ref_ops[j].id = handles[1].id
    /\ \A k \in 0..Len(ref_ops) :
           CountRefOps("Decrease", k) <= 1 + CountRefOps("Increase", k)
    /\ (\A i \in 2..Len(handles) : handles[i].dropped)
           => CloneDecreases = CountRefOps("Increase", Len(ref_ops))

\* a Strong handle was cloned twice and all three handles were dropped: two
\* Increases, and three Decreases of which the clones sent two
C14_Witness ==
    /\ Len(handles) = 3
    /\ \A i \in DOMAIN handles : handles[i].dropped
    /\ CountRefOps("Increase", Len(ref_ops)) = 2
    /\ CountRefOps("Decrease", Len(ref_ops)) = 3
    /\ CloneDecreases = 2

-----------------------------------------------------------------------------
(* AssetLoadOp: hydrate-loader/src/storage.rs *)

Versions == 1..NumVersions

\* HandleOp::{Complete, Error, Drop}(handle, version); op is the index in
\* load_ops of the AssetLoadOp that sent it
HandleOp(kind, self) ==
    [kind |-> kind, handle |-> self.handle, version |-> self.version, op |-> self.op]

\* AssetLoadOp::new
AssetLoadOp_new(op, handle, version) ==
    [sender |-> "Some", handle |-> handle, version |-> version,
     op |-> op, ended |-> "live"]

\* impl Drop for AssetLoadOp: the channel afterwards
AssetLoadOp_drop(self, chan) ==
    IF self.sender = "Some" THEN Append(chan, HandleOp("Drop", self)) ELSE chan

\* a complete() that leaves the sender in place
AssetLoadOp_complete_keeps_sender(self, chan) ==
    AssetLoadOp_drop(self, Append(chan, HandleOp("Complete", self)))

\* AssetLoadOp::complete, which takes self by value: the send, sender = None,
\* and the drop of self at the end of the call
AssetLoadOp_complete(self, chan) ==
    LET sent == Append(chan, HandleOp("Complete", self))
        taken == [self EXCEPT !.sender = "None"]
    IN AssetLoadOp_drop(taken, sent)

\* AssetLoadOp::error, likewise
AssetLoadOp_error(self, chan) ==
    LET sent == Append(chan, HandleOp("Error", self))
        taken == [self EXCEPT !.sender = "None"]
    IN AssetLoadOp_drop(taken, sent)

LoadOpNew ==
    /\ Len(load_ops) < MaxLoadOps
    /\ \E handle \in LoadHandles, version \in Versions :
           load_ops' = Append(load_ops, AssetLoadOp_new(Len(load_ops) + 1, handle, version))
    /\ UNCHANGED <<loader_events, ds_vars, handle_vars, loader_vars, import_vars, serde_vars, pool_vars, indirect_vars, cancel_vars, editor_vars, ctx_vars, populate_vars, location_vars, typed_vars, scope_vars, bits_vars, builder_vars, undo_vars, poolstep_vars, gather_vars>>

LoadOpComplete ==
    /\ \E i \in DOMAIN load_ops :
           /\ load_ops[i].ended = "live"
           /\ loader_events' = AssetLoadOp_complete(load_ops[i], loader_events)
           /\ load_ops' = [load_ops EXCEPT ![i].ended = "complete"]
    /\ UNCHANGED <<ds_vars, handle_vars, loader_vars, import_vars, serde_vars, pool_vars, indirect_vars, cancel_vars, editor_vars, ctx_vars, populate_vars, location_vars, typed_vars, scope_vars, bits_vars, builder_vars, undo_vars, poolstep_vars, gather_vars>>

LoadOpError ==
    /\ \E i \in DOMAIN load_ops :
           /\ load_ops[i].ended = "live"
           /\ loader_events' = AssetLoadOp_error(load_ops[i], loader_events)
           /\ load_ops' = [load_ops EXCEPT ![i].ended = "error"]
    /\ UNCHANGED <<ds_vars, handle_vars, loader_vars, import_vars, serde_vars, pool_vars, indirect_vars, cancel_vars, editor_vars, ctx_vars, populate_vars, location_vars, typed_vars, scope_vars, bits_vars, builder_vars, undo_vars, poolstep_vars, gather_vars>>

\* the AssetLoadOp goes out of scope with neither complete() nor error() called
LoadOpDrop ==
    /\ \E i \in DOMAIN load_ops :
           /\ load_ops[i].ended = "live"
           /\ loader_events' = AssetLoadOp_drop(load_ops[i], loader_events)
           /\ load_ops' = [load_ops EXCEPT ![i].ended = "drop"]
    /\ UNCHANGED <<ds_vars, handle_vars, loader_vars, import_vars, serde_vars, pool_vars, indirect_vars, cancel_vars, editor_vars, ctx_vars, populate_vars, location_vars, typed_vars, scope_vars, bits_vars, builder_vars, undo_vars, poolstep_vars, gather_vars>>

InitLoadOp ==
    DataSetIdle /\ HandleIdle /\ LoadOpIdle /\ LoaderIdle /\ ImportIdle /\ SerdeIdle /\ PoolIdle /\ IndirectIdle /\ CancelIdle /\ EditorIdle /\ ContextsIdle /\ PopulateIdle /\ LocationIdle /\ TypedIdle /\ ScopeIdle /\ BitsIdle /\ BuilderIdle /\ UndoIdle /\ PoolStepIdle /\ GatherIdle

NextLoadOp ==
    \/ LoadOpNew
    \/ LoadOpComplete
    \/ LoadOpError
    \/ LoadOpDrop

SpecLoadOp == InitLoadOp /\ [][NextLoadOp]_vars

\* the load results an AssetLoadOp has sent
ResultsOf(i) == SelectSeq(loader_events, LAMBDA e : e.op = i)

ResultKind(ended) ==
    CASE ended = "complete" -> "Complete"
      [] ended = "error" -> "Error"
      [] ended = "drop" -> "Drop"

\* C4: an AssetLoadOp that is still alive has sent no load result, and one
\* that has ended has sent exactly one, with the load handle and the version
\* it was made with: Complete after complete(), Error after error(), Drop when
\* it was dropped without either.
C4_ExactlyOneLoadResult ==
    \A i \in DOMAIN load_ops :
        IF load_ops[i].ended = "live"
        THEN ResultsOf(i) = <<>>
        ELSE ResultsOf(i) = <<[kind |-> ResultKind(load_ops[i].ended),
                               handle |-> load_ops[i].handle,
                               version |-> load_ops[i].version,
                               op |-> i]>>

\* two AssetLoadOps for the same load handle and version: one ended by
\* complete() and its drop sent nothing more, the other was dropped without
\* complete() or error(); the channel holds the two results
C4_Witness ==
    /\ Len(load_ops) = 2
    /\ {load_ops[i].ended : i \in DOMAIN load_ops} = {"complete", "drop"}
    /\ \A i \in DOMAIN load_ops :
           load_ops[i].handle = load_ops[1].handle /\ load_ops[i].version = load_ops[1].version
    /\ Len(loader_events) = 2

-----------------------------------------------------------------------------
(* The loader's state machine over LoadState (hydrate-base/src/handle.rs);  *)
(* the transitions are those of the loader's design, section 4.8           *)

\* enum LoadState, in declaration order
LoadStates ==
    <<"Unloaded", "WaitingForMetadata", "WaitingForDependencies", "WaitingForData",
      "Loading", "Loaded", "Committed">>

LoadStateRank(state) == CHOOSE i \in DOMAIN LoadStates : LoadStates[i] = state

\* the strong references to a load handle: those of the application and one
\* for every loading artifact whose metadata lists it as a dependency
strong_refcount(refs, deps, load_handle) ==
    refs[load_handle] + Cardinality({h \in DOMAIN deps : load_handle \in deps[h]})

\* a check that is content with the dependencies being on their way
all_dependencies_loading(states, deps, load_handle) ==
    \A d \in deps[load_handle] : LoadStateRank(states[d]) >= LoadStateRank("Loading")

\* every dependency listed in the metadata is at least Loaded
all_dependencies_loaded(states, deps, load_handle) ==
    \A d \in deps[load_handle] : LoadStateRank(states[d]) >= LoadStateRank("Loaded")

\* the load handles that are loading a new version next to the committed one
reload_group(reloads) == {h \in DOMAIN reloads : reloads[h] # "None"}

\* a check that is content with one member of the group being loaded
reload_group_some_loaded(reloads) ==
    \E h \in reload_group(reloads) : reloads[h] = "Loaded"

\* every concurrently reloading artifact has reached Loaded
reload_group_ready(reloads) ==
    /\ reload_group(reloads) # {}
    /\ \A h \in reload_group(reloads) : reloads[h] = "Loaded"

\* add_ref: the application takes a strong handle; the first reference to an
\* Unloaded handle starts its load
LoaderAddRef ==
    /\ \E h \in LoadHandles :
           /\ user_refs[h] < MaxRefs
           /\ user_refs' = [user_refs EXCEPT ![h] = @ + 1]
           /\ IF load_state[h] = "Unloaded"
              THEN load_state' = [load_state EXCEPT ![h] = "WaitingForMetadata"]
              ELSE UNCHANGED load_state
    /\ UNCHANGED <<load_version, metadata_deps, committed_version, reload_state,
                   committed_group>>
    /\ UNCHANGED <<ds_vars, handle_vars, load_op_vars, import_vars, serde_vars, pool_vars, indirect_vars, cancel_vars, editor_vars, ctx_vars, populate_vars, location_vars, typed_vars, scope_vars, bits_vars, builder_vars, undo_vars, poolstep_vars, gather_vars>>

\* remove_ref: a strong handle of the application is dropped
LoaderRemoveRef ==
    /\ \E h \in LoadHandles :
           /\ user_refs[h] > 0
           /\ user_refs' = [user_refs EXCEPT ![h] = @ - 1]
    /\ UNCHANGED <<load_state, load_version, metadata_deps, committed_version,
                   reload_state, committed_group>>
    /\ UNCHANGED <<ds_vars, handle_vars, load_op_vars, import_vars, serde_vars, pool_vars, indirect_vars, cancel_vars, editor_vars, ctx_vars, populate_vars, location_vars, typed_vars, scope_vars, bits_vars, builder_vars, undo_vars, poolstep_vars, gather_vars>>

\* the refcount is back at zero: the loader tears the load down and lets go
\* of the dependencies
LoaderUnload ==
    /\ \E h \in LoadHandles :
           /\ load_state[h] # "Unloaded"
           /\ strong_refcount(user_refs, metadata_deps, h) = 0
           /\ load_state' = [load_state EXCEPT ![h] = "Unloaded"]
           /\ metadata_deps' = [metadata_deps EXCEPT ![h] = {}]
           /\ committed_version' = [committed_version EXCEPT ![h] = 0]
           /\ reload_state' = [reload_state EXCEPT ![h] = "None"]
    /\ UNCHANGED <<user_refs, load_version, committed_group>>
    /\ UNCHANGED <<ds_vars, handle_vars, load_op_vars, import_vars, serde_vars, pool_vars, indirect_vars, cancel_vars, editor_vars, ctx_vars, populate_vars, location_vars, typed_vars, scope_vars, bits_vars, builder_vars, undo_vars, poolstep_vars, gather_vars>>

\* the artifact's metadata arrives: add_ref for every dependency it lists
LoaderMetadata ==
    /\ \E h \in LoadHandles, dependencies \in SUBSET LoadHandles :
           /\ h \notin dependencies
           /\ load_state[h] = "WaitingForMetadata"
           /\ strong_refcount(user_refs, metadata_deps, h) > 0
           /\ metadata_deps' = [metadata_deps EXCEPT ![h] = dependencies]
           /\ load_state' =
                  [g \in LoadHandles |->
                      IF g = h THEN "WaitingForDependencies"
                      ELSE IF g \in dependencies /\ load_state[g] = "Unloaded"
                           THEN "WaitingForMetadata" ELSE load_state[g]]
    /\ UNCHANGED <<user_refs, load_version, committed_version, reload_state,
                   committed_group>>
    /\ UNCHANGED <<ds_vars, handle_vars, load_op_vars, import_vars, serde_vars, pool_vars, indirect_vars, cancel_vars, editor_vars, ctx_vars, populate_vars, location_vars, typed_vars, scope_vars, bits_vars, builder_vars, undo_vars, poolstep_vars, gather_vars>>

LoaderDependenciesLoaded ==
    /\ \E h \in LoadHandles :
           /\ load_state[h] = "WaitingForDependencies"
           /\ strong_refcount(user_refs, metadata_deps, h) > 0
           /\ all_dependencies_loaded(load_state, metadata_deps, h)
           /\ load_state' = [load_state EXCEPT ![h] = "WaitingForData"]
    /\ UNCHANGED <<user_refs, load_version, metadata_deps, committed_version,
                   reload_state, committed_group>>
    /\ UNCHANGED <<ds_vars, handle_vars, load_op_vars, import_vars, serde_vars, pool_vars, indirect_vars, cancel_vars, editor_vars, ctx_vars, populate_vars, location_vars, typed_vars, scope_vars, bits_vars, builder_vars, undo_vars, poolstep_vars, gather_vars>>

\* the payload is in memory and goes to AssetStorage::update_asset
LoaderData ==
    /\ \E h \in LoadHandles :
           /\ load_state[h] = "WaitingForData"
           /\ strong_refcount(user_refs, metadata_deps, h) > 0
           /\ load_state' = [load_state EXCEPT ![h] = "Loading"]
    /\ UNCHANGED <<user_refs, load_version, metadata_deps, committed_version,
                   reload_state, committed_group>>
    /\ UNCHANGED <<ds_vars, handle_vars, load_op_vars, import_vars, serde_vars, pool_vars, indirect_vars, cancel_vars, editor_vars, ctx_vars, populate_vars, location_vars, typed_vars, scope_vars, bits_vars, builder_vars, undo_vars, poolstep_vars, gather_vars>>

\* HandleOp::Complete
LoaderLoadComplete ==
    /\ \E h \in LoadHandles :
           /\ load_state[h] = "Loading"
           /\ strong_refcount(user_refs, metadata_deps, h) > 0
           /\ load_state' = [load_state EXCEPT ![h] = "Loaded"]
    /\ UNCHANGED <<user_refs, load_version, metadata_deps, committed_version,
                   reload_state, committed_group>>
    /\ UNCHANGED <<ds_vars, handle_vars, load_op_vars, import_vars, serde_vars, pool_vars, indirect_vars, cancel_vars, editor_vars, ctx_vars, populate_vars, location_vars, typed_vars, scope_vars, bits_vars, builder_vars, undo_vars, poolstep_vars, gather_vars>>

\* HandleOp::Error and HandleOp::Drop: the handle is Unloaded until a later add_ref
LoaderLoadError ==
    /\ \E h \in LoadHandles :
           /\ load_state[h] = "Loading"
           /\ load_state' = [load_state EXCEPT ![h] = "Unloaded"]
           /\ metadata_deps' = [metadata_deps EXCEPT ![h] = {}]
    /\ UNCHANGED <<user_refs, load_version, committed_version, reload_state,
                   committed_group>>
    /\ UNCHANGED <<ds_vars, handle_vars, load_op_vars, import_vars, serde_vars, pool_vars, indirect_vars, cancel_vars, editor_vars, ctx_vars, populate_vars, location_vars, typed_vars, scope_vars, bits_vars, builder_vars, undo_vars, poolstep_vars, gather_vars>>

\* the first load of an artifact is committed: AssetStorage::commit_asset_version
LoaderCommit ==
    /\ \E h \in LoadHandles :
           /\ load_state[h] = "Loaded"
           /\ strong_refcount(user_refs, metadata_deps, h) > 0
           /\ load_state' = [load_state EXCEPT ![h] = "Committed"]
           /\ committed_version' = [committed_version EXCEPT ![h] = load_version[h]]
    /\ UNCHANGED <<user_refs, load_version, metadata_deps, reload_state, committed_group>>
    /\ UNCHANGED <<ds_vars, handle_vars, load_op_vars, import_vars, serde_vars, pool_vars, indirect_vars, cancel_vars, editor_vars, ctx_vars, populate_vars, location_vars, typed_vars, scope_vars, bits_vars, builder_vars, undo_vars, poolstep_vars, gather_vars>>

\* a loader that reloads under the version it has
next_load_version_same(version) == version

\* the runtime load version of the next load of an updated artifact
next_load_version(version) == version + 1

\* get_version: the committed version, None before the first commit
get_version(versions, h) == IF versions[h] > 0 THEN Some(versions[h]) ELSE None

\* a new version of a committed artifact arrives: it is loaded next to the
\* committed one, under a bumped version
LoaderArtifactUpdated ==
    /\ \E h \in LoadHandles :
           /\ load_state[h] = "Committed"
           /\ reload_state[h] = "None"
           /\ load_version[h] < NumVersions
           /\ reload_state' = [reload_state EXCEPT ![h] = "WaitingForMetadata"]
           /\ load_version' = [load_version EXCEPT ![h] = next_load_version(@)]
    /\ UNCHANGED <<user_refs, load_state, metadata_deps, committed_version, committed_group>>
    /\ UNCHANGED <<ds_vars, handle_vars, load_op_vars, import_vars, serde_vars, pool_vars, indirect_vars, cancel_vars, editor_vars, ctx_vars, populate_vars, location_vars, typed_vars, scope_vars, bits_vars, builder_vars, undo_vars, poolstep_vars, gather_vars>>

\* the load of the new version moves on by one state, up to Loaded
LoaderReloadStep ==
    /\ \E h \in LoadHandles :
           /\ reload_state[h] \notin {"None", "Loaded"}
           /\ reload_state[h] = "WaitingForDependencies"
                  => all_dependencies_loaded(load_state, metadata_deps, h)
           /\ reload_state' =
                  [reload_state EXCEPT ![h] = LoadStates[LoadStateRank(@) + 1]]
    /\ UNCHANGED <<user_refs, load_state, load_version, metadata_deps,
                   committed_version, committed_group>>
    /\ UNCHANGED <<ds_vars, handle_vars, load_op_vars, import_vars, serde_vars, pool_vars, indirect_vars, cancel_vars, editor_vars, ctx_vars, populate_vars, location_vars, typed_vars, scope_vars, bits_vars, builder_vars, undo_vars, poolstep_vars, gather_vars>>

\* every reloading artifact has reached Loaded: their new versions are
\* committed together
LoaderReloadCommit ==
    /\ reload_group_ready(reload_state)
    /\ committed_version' =
           [h \in LoadHandles |->
               IF h \in reload_group(reload_state)
               THEN load_version[h] ELSE committed_version[h]]
    /\ reload_state' = [h \in LoadHandles |-> "None"]
    /\ committed_group' = reload_group(reload_state)
    /\ UNCHANGED <<user_refs, load_state, load_version, metadata_deps>>
    /\ UNCHANGED <<ds_vars, handle_vars, load_op_vars, import_vars, serde_vars, pool_vars, indirect_vars, cancel_vars, editor_vars, ctx_vars, populate_vars, location_vars, typed_vars, scope_vars, bits_vars, builder_vars, undo_vars, poolstep_vars, gather_vars>>

InitLoader ==
    DataSetIdle /\ HandleIdle /\ LoadOpIdle /\ LoaderIdle /\ ImportIdle /\ SerdeIdle /\ PoolIdle /\ IndirectIdle /\ CancelIdle /\ EditorIdle /\ ContextsIdle /\ PopulateIdle /\ LocationIdle /\ TypedIdle /\ ScopeIdle /\ BitsIdle /\ BuilderIdle /\ UndoIdle /\ PoolStepIdle /\ GatherIdle

NextLoader ==
    \/ LoaderAddRef
    \/ LoaderRemoveRef
    \/ LoaderUnload
    \/ LoaderMetadata
    \/ LoaderDependenciesLoaded
    \/ LoaderData
    \/ LoaderLoadComplete
    \/ LoaderLoadError
    \/ LoaderCommit

SpecLoader == InitLoader /\ [][NextLoader]_vars

\* every artifact has been loaded and committed at its first version, each
\* for one handle of the application
InitReload ==
    /\ load_state = [h \in LoadHandles |-> "Committed"]
    /\ user_refs = [h \in LoadHandles |-> 1]
    /\ load_version = [h \in LoadHandles |-> 1]
    /\ metadata_deps = [h \in LoadHandles |-> {}]
    /\ committed_version = [h \in LoadHandles |-> 1]
    /\ reload_state = [h \in LoadHandles |-> "None"]
    /\ committed_group = {}
    /\ DataSetIdle /\ HandleIdle /\ LoadOpIdle /\ ImportIdle /\ SerdeIdle /\ PoolIdle /\ IndirectIdle /\ CancelIdle /\ EditorIdle /\ ContextsIdle /\ PopulateIdle /\ LocationIdle /\ TypedIdle /\ ScopeIdle /\ BitsIdle /\ BuilderIdle /\ UndoIdle /\ PoolStepIdle /\ GatherIdle

NextReload ==
    \/ LoaderRemoveRef
    \/ LoaderUnload
    \/ LoaderArtifactUpdated
    \/ LoaderReloadStep
    \/ LoaderReloadCommit

SpecReload == InitReload /\ [][NextReload]_vars

\* C5: a step commits a reloaded artifact at its new version only when every
\* artifact reloading at that time has reached Loaded at its new version, and
\* the step commits all of them: no consumer sees one member of the group at
\* its new version and another at its old one.
C5_ReloadGroupCommitsTogether ==
    [][\A x \in LoadHandles :
           (reload_state[x] # "None" /\ committed_version'[x] = load_version[x]
                                     /\ committed_version[x] # load_version[x])
               => \A y \in reload_group(reload_state) :
                      /\ reload_state[y] = "Loaded"
                      /\ committed_version'[y] = load_version[y]]_vars

\* two artifacts were reloaded at the same time and committed in one step
C5_Witness ==
    /\ Cardinality(committed_group) = 2
    /\ \A h \in committed_group :
           load_state[h] = "Committed" /\ committed_version[h] = 2

\* C6: a load handle's state stays, moves to the next LoadState or goes back
\* to Unloaded; it moves out of Unloaded only with a strong refcount above
\* zero, and from WaitingForDependencies to WaitingForData only with every
\* dependency of its metadata at least Loaded.
C6_LoadStateSteps ==
    [][\A h \in LoadHandles :
           LET from == load_state[h]
               to == load_state'[h]
           IN /\ \/ to = from
                 \/ to = "Unloaded"
                 \/ LoadStateRank(to) = LoadStateRank(from) + 1
              /\ (from = "Unloaded" /\ to # "Unloaded")
                     => strong_refcount(user_refs', metadata_deps', h) > 0
              /\ (from = "WaitingForDependencies" /\ to \notin {from, "Unloaded"})
                     => \A d \in metadata_deps[h] :
                            load_state[d] \in {"Loaded", "Committed"}]_vars

\* a handle with a dependency went the whole way to Committed, and its
\* dependency is loaded
C6_Witness ==
    \E h \in LoadHandles :
        /\ load_state[h] = "Committed"
        /\ metadata_deps[h] # {}
        /\ \A d \in metadata_deps[h] : load_state[d] \in {"Loaded", "Committed"}

-----------------------------------------------------------------------------
(* Import worker: hydrate-pipeline/src/import_thread_pool.rs *)

FileSizes == {10, 20}
FileContents == {1, 2}
ImportTypes == {"ImportAlways", "ImportIfImportDataStale"}

\* metadata.len()
source_file_size(source) == source.size

\* metadata.modified(), as whole seconds since the epoch: Duration::as_secs
source_file_modified_timestamp(source) == source.modified \div TicksPerSecond

\* the SipHasher hash of the import data, which the importer derives from the
\* contents of the source file; never 0, the hash recorded for no import data
import_data_contents_hash(contents) == 40 + contents

ImportDataMetadata(timestamp, size, hash) ==
    [source_file_modified_timestamp |-> timestamp,
     source_file_size |-> size,
     import_data_contents_hash |-> hash]

\* the loop of do_import over the requested importables
import_data_is_stale(files, state, source, requested) ==
    \E asset \in requested :
        IF files[asset].some
        THEN LET metadata == files[asset].v
             IN \/ metadata.source_file_size # source_file_size(source)
                \/ metadata.source_file_modified_timestamp
                       # source_file_modified_timestamp(source)
                \/ ~state[asset].some
                \/ /\ state[asset].some
                   /\ \/ state[asset].v.import_data_contents_hash
                             # metadata.import_data_contents_hash
                      \/ state[asset].v.source_file_size # metadata.source_file_size
                      \/ state[asset].v.source_file_modified_timestamp
                             # metadata.source_file_modified_timestamp
        ELSE TRUE

\* the SipHasher hash of the bytes of an import-data file, which hold the
\* import data and its ImportDataMetadata
data_hash(data) ==
    (data.source_file_modified_timestamp * 64 + data.source_file_size) * 64
        + data.import_data_contents_hash

\* a write of the import-data file whatever is on disk
file_always_needs_write(on_disk, data_to_write) == TRUE

\* file_needs_write in do_import: the file is missing, or the hash of the
\* data on disk differs from the hash of the data to write
file_needs_write(on_disk, data_to_write) ==
    IF on_disk.some
    THEN data_hash(on_disk.v) # data_hash(data_to_write)
    ELSE TRUE

\* do_import: [invoked, files, written, result]. written holds the assets
\* whose import-data file was written. imported is what import_file returns:
\* an error, or for each requested importable whether it comes with import data
do_import(files, state, source, import_type, requested, imported) ==
    IF import_type = "ImportIfImportDataStale"
           /\ ~import_data_is_stale(files, state, source, requested)
    THEN [invoked |-> FALSE, files |-> files, written |-> {},
          result |-> Some([a \in {} |-> 0])]
    ELSE IF ~imported.some
    THEN [invoked |-> TRUE, files |-> files, written |-> {}, result |-> None]
    ELSE LET timestamp == source_file_modified_timestamp(source)
             size == source_file_size(source)
             hash(a) == IF imported.v[a] THEN import_data_contents_hash(source.contents)
                        ELSE 0
             data_to_write(a) == ImportDataMetadata(timestamp, size, hash(a))
             written == {a \in requested :
                            imported.v[a] /\ file_needs_write(files[a], data_to_write(a))}
         IN [invoked |-> TRUE,
             files |-> [a \in ImportableAssets |->
                           IF a \in written THEN Some(data_to_write(a)) ELSE files[a]],
             written |-> written,
             result |-> Some([a \in requested |-> data_to_write(a)])]

\* every requested importable has an import-data file whose stored size, mtime
\* and contents hash equal the size and mtime of the source file and the
\* last-known import state of the asset
ImportDataMatches(files, state, source, requested) ==
    \A asset \in requested :
        /\ files[asset].some
        /\ state[asset].some
        /\ files[asset].v = state[asset].v
        /\ files[asset].v.source_file_size = source.size
        /\ files[asset].v.source_file_modified_timestamp
               = source_file_modified_timestamp(source)

\* ImportWorkerThreadPool::new: the workers share the import state the caller
\* passes, which is the import info of the assets at that time
ImportPoolNew ==
    /\ existing_asset_import_state' = asset_import_info
    /\ UNCHANGED <<source_file, import_data_files, asset_import_info, import_outcome,
                   import_event, imported_assets, mtime_changed>>
    /\ UNCHANGED <<ds_vars, handle_vars, load_op_vars, loader_vars, serde_vars, pool_vars, indirect_vars, cancel_vars, editor_vars, ctx_vars, populate_vars, location_vars, typed_vars, scope_vars, bits_vars, builder_vars, undo_vars, poolstep_vars, gather_vars>>

\* a worker takes a RequestImport and runs do_import
ImportRequest ==
    /\ ~import_outcome.some
    /\ \E import_type \in ImportTypes, requested \in SUBSET ImportableAssets,
          imported \in {None} \cup {Some(i) : i \in [ImportableAssets -> BOOLEAN]} :
           /\ requested # {}
           /\ LET r == do_import(import_data_files, existing_asset_import_state,
                                 source_file, import_type, requested, imported)
                  written == IF r.invoked /\ r.result.some
                             THEN {a \in requested : imported.v[a]} ELSE {}
              IN /\ import_data_files' = r.files
                 /\ import_outcome' = Some(r.result)
                 /\ import_event' = [import_type |-> import_type,
                                     invoked |-> r.invoked,
                                     matches_before |->
                                         ImportDataMatches(import_data_files,
                                             existing_asset_import_state,
                                             source_file, requested),
                                     imported_before |-> requested \subseteq imported_assets,
                                     mtime_changed_before |-> mtime_changed]
                 /\ imported_assets' = imported_assets \cup written
                 /\ mtime_changed' = (mtime_changed /\ written = {})
    /\ UNCHANGED <<source_file, existing_asset_import_state, asset_import_info>>
    /\ UNCHANGED <<ds_vars, handle_vars, load_op_vars, loader_vars, serde_vars, pool_vars, indirect_vars, cancel_vars, editor_vars, ctx_vars, populate_vars, location_vars, typed_vars, scope_vars, bits_vars, builder_vars, undo_vars, poolstep_vars, gather_vars>>

\* the main loop receives the outcome and attaches the import info of a
\* successful import to the assets
ImportMergeOutcome ==
    /\ import_outcome.some
    /\ import_outcome' = None
    /\ asset_import_info' =
           IF import_outcome.v.some
           THEN [a \in ImportableAssets |->
                    IF a \in DOMAIN import_outcome.v.v
                    THEN Some(import_outcome.v.v[a]) ELSE asset_import_info[a]]
           ELSE asset_import_info
    /\ UNCHANGED <<source_file, import_data_files, existing_asset_import_state,
                   import_event, imported_assets, mtime_changed>>
    /\ UNCHANGED <<ds_vars, handle_vars, load_op_vars, loader_vars, serde_vars, pool_vars, indirect_vars, cancel_vars, editor_vars, ctx_vars, populate_vars, location_vars, typed_vars, scope_vars, bits_vars, builder_vars, undo_vars, poolstep_vars, gather_vars>>

\* touch F: the modification time moves on, by less than a second or by more
SourceTouch ==
    /\ \E later \in (source_file.modified + 1)..MaxModified :
           source_file' = [source_file EXCEPT !.modified = later]
    /\ imported_assets' = {}
    /\ mtime_changed' = TRUE
    /\ UNCHANGED <<import_data_files, existing_asset_import_state, asset_import_info,
                   import_outcome, import_event>>
    /\ UNCHANGED <<ds_vars, handle_vars, load_op_vars, loader_vars, serde_vars, pool_vars, indirect_vars, cancel_vars, editor_vars, ctx_vars, populate_vars, location_vars, typed_vars, scope_vars, bits_vars, builder_vars, undo_vars, poolstep_vars, gather_vars>>

\* F is rewritten: other contents, any size, a later modification time
SourceWrite ==
    /\ \E later \in (source_file.modified + 1)..MaxModified,
          size \in FileSizes, contents \in FileContents :
           /\ contents # source_file.contents
           /\ source_file' = [size |-> size, contents |-> contents, modified |-> later]
    /\ imported_assets' = {}
    /\ mtime_changed' = TRUE
    /\ UNCHANGED <<import_data_files, existing_asset_import_state, asset_import_info,
                   import_outcome, import_event>>
    /\ UNCHANGED <<ds_vars, handle_vars, load_op_vars, loader_vars, serde_vars, pool_vars, indirect_vars, cancel_vars, editor_vars, ctx_vars, populate_vars, location_vars, typed_vars, scope_vars, bits_vars, builder_vars, undo_vars, poolstep_vars, gather_vars>>

InitImport ==
    DataSetIdle /\ HandleIdle /\ LoadOpIdle /\ LoaderIdle /\ ImportIdle /\ SerdeIdle /\ PoolIdle /\ IndirectIdle /\ CancelIdle /\ EditorIdle /\ ContextsIdle /\ PopulateIdle /\ LocationIdle /\ TypedIdle /\ ScopeIdle /\ BitsIdle /\ BuilderIdle /\ UndoIdle /\ PoolStepIdle /\ GatherIdle

NextImport ==
    \/ ImportPoolNew
    \/ ImportRequest
    \/ ImportMergeOutcome
    \/ SourceTouch
    \/ SourceWrite

SpecImport == InitImport /\ [][NextImport]_vars

\* the worker pool of a project in which nothing has been imported yet: the
\* import state its workers share stays empty
NextReimport ==
    \/ ImportRequest
    \/ ImportMergeOutcome
    \/ SourceTouch
    \/ SourceWrite

SpecReimport == InitImport /\ [][NextReimport]_vars

\* C7: a request of type ImportIfImportDataStale invokes import_file unless,
\* for every requested importable, the import-data file exists and its stored
\* size, mtime and contents hash equal the source file's size and mtime and
\* the asset's last-known import state; so it does not invoke import_file for
\* importables imported since the source file was last touched, and it does
\* when the mtime of the source file has changed since the last import.
C7_StaleRequestImportsIffChanged ==
    import_event.import_type = "ImportIfImportDataStale" =>
        /\ import_event.invoked <=> ~import_event.matches_before
        /\ import_event.imported_before => ~import_event.invoked
        /\ import_event.mtime_changed_before => import_event.invoked

-----------------------------------------------------------------------------
(* Serde scope: hydrate-base/src/handle.rs, DummySerdeContext and Handle serde *)

NumAssets == 2
NumKeys == 1
MaxLoadGen == 2

\* the number of bytes of an ArtifactId
IdLen == 16

\* ArtifactId::null(), ArtifactId::default(): sixteen zero bytes
NullId == [i \in 1..IdLen |-> 0]

\* the UUID of asset n
AssetUuid(n) == [i \in 1..IdLen |-> IF i = IdLen THEN n ELSE 0]

AssetIds == {AssetUuid(n) : n \in 1..NumAssets}
ArtifactKeys == {None} \cup {Some(k) : k \in 1..NumKeys}

\* the 128 bits of the SipHasher that was fed the asset id, then the key:
\* a function of the two, here the asset id's bytes with the key mixed into
\* the first one
hash128(asset_id, key) ==
    [i \in 1..IdLen |-> IF i = 1 THEN (128 + 31 * asset_id[IdLen] + key) % 256
                        ELSE asset_id[i]]

\* an id derivation that ignores the key
create_artifact_id_ignoring_key(asset_id, artifact_key) == asset_id

\* create_artifact_id
create_artifact_id(asset_id, artifact_key) ==
    IF artifact_key.some
    THEN hash128(asset_id, artifact_key.v)
    ELSE asset_id

\* DummySerdeContext::new
DummySerdeContext_new ==
    [uuid_to_load |-> EmptyMap,
     load_to_uuid |-> EmptyMap,
     handle_gen |-> 1,
     current_serde_dependencies |-> {},
     current_serde_artifact |-> None]

\* DummySerdeContext::load_handle: [self, ret], the context afterwards and the LoadHandle
load_handle(self, artifact_ref) ==
    IF artifact_ref \in DOMAIN self.uuid_to_load
    THEN [self |-> self, ret |-> Some(self.uuid_to_load[artifact_ref])]
    ELSE [self |-> [self EXCEPT
                       !.uuid_to_load = MapInsert(@, artifact_ref, self.handle_gen),
                       !.load_to_uuid = MapInsert(@, self.handle_gen, artifact_ref),
                       !.handle_gen = @ + 1],
          ret |-> Some(self.handle_gen)]

\* an artifact_id that records every id it finds as a dependency
artifact_id_recording_all(self, load) ==
    LET maybe_artifact == IF load \in DOMAIN self.load_to_uuid
                          THEN Some(self.load_to_uuid[load])
                          ELSE None
    IN  [self |-> IF maybe_artifact.some /\ self.current_serde_artifact.some
                  THEN [self EXCEPT !.current_serde_dependencies =
                                        @ \cup {maybe_artifact.v}]
                  ELSE self,
         ret |-> maybe_artifact]

\* DummySerdeContext::artifact_id: [self, ret], the context afterwards and the
\* ArtifactId the LoadHandle maps to, if any
artifact_id(self, load) ==
    LET maybe_artifact == IF load \in DOMAIN self.load_to_uuid
                          THEN Some(self.load_to_uuid[load])
                          ELSE None
    IN  [self |-> IF /\ maybe_artifact.some
                     /\ self.current_serde_artifact.some
                     /\ self.current_serde_artifact.v # maybe_artifact.v
                     /\ maybe_artifact.v # NullId
                  THEN [self EXCEPT !.current_serde_dependencies =
                                        @ \cup {maybe_artifact.v}]
                  ELSE self,
         ret |-> maybe_artifact]

\* DummySerdeContextHandle::resolve_ref
resolve_ref(self, artifact_ref, artifact) ==
    IF artifact_ref \in DOMAIN self.uuid_to_load
    THEN LET handle == self.uuid_to_load[artifact_ref]
         IN  [self EXCEPT !.load_to_uuid = MapInsert(@, handle, artifact),
                          !.uuid_to_load = MapInsert(@, artifact, handle)]
    ELSE self

\* DummySerdeContextHandle::begin_serialize_artifact, which panics when an
\* artifact is being serialized already
begin_serialize_artifact(self, artifact) ==
    [self EXCEPT !.current_serde_artifact = Some(artifact)]

\* DummySerdeContextHandle::end_serialize_artifact: [self, ret], the context
\* afterwards and the dependencies gathered
end_serialize_artifact(self) ==
    [self |-> [self EXCEPT !.current_serde_artifact = None,
                           !.current_serde_dependencies = {}],
     ret |-> self.current_serde_dependencies]

\* serialize_handle: [self, ret], the context afterwards and the elements
\* written as a sequence
serialize_handle(self, load) ==
    LET r == artifact_id(self, load)
        uuid == IF r.ret.some THEN r.ret.v ELSE NullId
    IN  [self |-> r.self, ret |-> [i \in 1..IdLen |-> uuid[i]]]

\* ArtifactRefVisitor::visit_seq: the ArtifactRef read from a sequence, or
\* None for the error
ArtifactRefVisitor_visit_seq(seq) ==
    IF \E i \in 1..IdLen : i > Len(seq)
    THEN None
    ELSE IF Len(seq) > IdLen
         THEN None
         ELSE Some([i \in 1..IdLen |-> seq[i]])

\* get_handle_ref: [self, chan, ret], the context and the channel afterwards
\* and the LoadHandle
get_handle_ref(self, chan, artifact_ref) ==
    IF artifact_ref = NullId
    THEN [self |-> self, chan |-> chan, ret |-> 0]
    ELSE LET l == load_handle(self, artifact_ref)
         IN  [self |-> l.self, chan |-> chan, ret |-> l.ret.v]

\* a deserialization that makes a Strong handle
Handle_deserialize_strong(self, chan, seq) ==
    LET artifact_ref == ArtifactRefVisitor_visit_seq(seq)
    IN  IF ~artifact_ref.some
        THEN [self |-> self, chan |-> chan, ret |-> None]
        ELSE LET g == get_handle_ref(self, chan, artifact_ref.v)
             IN  [self |-> g.self, chan |-> g.chan, ret |-> Some(Handle_new(g.ret))]

\* impl Deserialize for Handle<T>, of a format that is not human readable:
\* [self, chan, ret], the context and the channel afterwards and the handle,
\* or None for the error
Handle_deserialize(self, chan, seq) ==
    LET artifact_ref == ArtifactRefVisitor_visit_seq(seq)
    IN  IF ~artifact_ref.some
        THEN [self |-> self, chan |-> chan, ret |-> None]
        ELSE LET g == get_handle_ref(self, chan, artifact_ref.v)
             IN  [self |-> g.self, chan |-> g.chan,
                  ret |-> Some(Handle_new_internal(g.ret))]

\* make_handle_within_serde_context: [self, ret], the context afterwards and
\* the handle
make_handle_within_serde_context(self, uuid) ==
    LET l == load_handle(self, uuid)
    IN  [self |-> l.self, ret |-> Handle_new(l.ret.v)]

\* the artifact ids the scope is asked about
ScopeIds == {NullId, AssetUuid(1), AssetUuid(2)}

\* the sequences handed to the deserializer: every such id, one element
\* short, exact, and one element long
WireSeqs ==
    UNION {{SubSeq(id, 1, IdLen - 1), id, Append(id, 0)} : id \in ScopeIds}

\* a handle is made for an artifact id inside the scope
SerdeMakeHandle ==
    /\ \E uuid \in ScopeIds :
           /\ uuid \in DOMAIN serde_context.uuid_to_load
              \/ serde_context.handle_gen <= MaxLoadGen
           /\ LET r == make_handle_within_serde_context(serde_context, uuid)
              IN  /\ serde_context' = r.self
                  /\ serde_handles' = serde_handles \cup {r.ret}
                  /\ serde_event' = [op |-> "make_handle"]
    /\ UNCHANGED built_artifact
    /\ UNCHANGED <<ds_vars, handle_vars, load_op_vars, loader_vars, import_vars, pool_vars, indirect_vars, cancel_vars, editor_vars, ctx_vars, populate_vars, location_vars, typed_vars, scope_vars, bits_vars, builder_vars, undo_vars, poolstep_vars, gather_vars>>

\* DummySerdeContextHandle::resolve_ref, between two scopes
SerdeResolveRef ==
    /\ \E artifact_ref \in DOMAIN serde_context.uuid_to_load, artifact \in ScopeIds :
           /\ serde_context' = resolve_ref(serde_context, artifact_ref, artifact)
           /\ serde_event' = [op |-> "resolve_ref"]
    /\ UNCHANGED <<serde_handles, built_artifact>>
    /\ UNCHANGED <<ds_vars, handle_vars, load_op_vars, loader_vars, import_vars, pool_vars, indirect_vars, cancel_vars, editor_vars, ctx_vars, populate_vars, location_vars, typed_vars, scope_vars, bits_vars, builder_vars, undo_vars, poolstep_vars, gather_vars>>

\* a handle of the scope is serialized
SerdeSerializeHandle ==
    /\ \E h \in serde_handles :
           LET r == serialize_handle(serde_context, h.id)
           IN  /\ serde_context' = r.self
               /\ serde_event' = [op |-> "serialize"]
    /\ UNCHANGED <<serde_handles, built_artifact>>
    /\ UNCHANGED <<ds_vars, handle_vars, load_op_vars, loader_vars, import_vars, pool_vars, indirect_vars, cancel_vars, editor_vars, ctx_vars, populate_vars, location_vars, typed_vars, scope_vars, bits_vars, builder_vars, undo_vars, poolstep_vars, gather_vars>>

\* a handle is deserialized inside the scope
SerdeDeserializeHandle ==
    /\ \E seq \in WireSeqs :
           /\ \/ Len(seq) # IdLen
              \/ seq = NullId
              \/ seq \in DOMAIN serde_context.uuid_to_load
              \/ serde_context.handle_gen <= MaxLoadGen
           /\ LET r == Handle_deserialize(serde_context, <<>>, seq)
              IN  /\ serde_context' = r.self
                  /\ serde_handles' = IF r.ret.some
                                      THEN serde_handles \cup {r.ret.v}
                                      ELSE serde_handles
                  /\ serde_event' = [op |-> IF r.ret.some THEN "deserialize"
                                            ELSE "deserialize_error"]
    /\ UNCHANGED built_artifact
    /\ UNCHANGED <<ds_vars, handle_vars, load_op_vars, loader_vars, import_vars, pool_vars, indirect_vars, cancel_vars, editor_vars, ctx_vars, populate_vars, location_vars, typed_vars, scope_vars, bits_vars, builder_vars, undo_vars, poolstep_vars, gather_vars>>

InitSerde ==
    DataSetIdle /\ HandleIdle /\ LoadOpIdle /\ LoaderIdle /\ ImportIdle /\ SerdeIdle /\ PoolIdle /\ IndirectIdle /\ CancelIdle /\ EditorIdle /\ ContextsIdle /\ PopulateIdle /\ LocationIdle /\ TypedIdle /\ ScopeIdle /\ BitsIdle /\ BuilderIdle /\ UndoIdle /\ PoolStepIdle /\ GatherIdle

NextSerde ==
    \/ SerdeMakeHandle
    \/ SerdeResolveRef
    \/ SerdeSerializeHandle
    \/ SerdeDeserializeHandle

SpecSerde == InitSerde /\ [][NextSerde]_vars

-----------------------------------------------------------------------------
(* Producing artifacts: hydrate-pipeline/src/job_system/job_system_traits.rs *)

\* bincode::serialize of the asset, as far as its handles go: [self, data],
\* the context afterwards and the elements written for each handle
RECURSIVE serialize_asset(_, _)
serialize_asset(self, asset_handles) ==
    IF asset_handles = {}
    THEN [self |-> self, data |-> <<>>]
    ELSE LET h == CHOOSE x \in asset_handles : TRUE
             s == serialize_handle(self, h.id)
             rest == serialize_asset(s.self, asset_handles \ {h})
         IN  [self |-> rest.self, data |-> <<s.ret>> \o rest.data]

\* the artifact ids a payload holds
IdsWritten(data) == {data[i] : i \in 1..Len(data)}

\* HandleFactory::make_handle_to_artifact_key: [self, ret], the context
\* afterwards and the handle
make_handle_to_artifact_key(self, asset_id, artifact_key) ==
    make_handle_within_serde_context(self, create_artifact_id(asset_id, artifact_key))

\* produce_artifact_with_handles up to the call of asset_fn: the artifact id
\* is derived and a new DummySerdeContext begins to serialize it
ProduceBegin ==
    /\ ~serde_context.current_serde_artifact.some
    /\ \E asset_id \in AssetIds, artifact_key \in ArtifactKeys :
           /\ serde_context' = begin_serialize_artifact(
                                   DummySerdeContext_new,
                                   create_artifact_id(asset_id, artifact_key))
           /\ serde_event' = [op |-> "begin", asset_id |-> asset_id,
                              artifact_key |-> artifact_key]
    /\ serde_handles' = {}
    /\ built_artifact' = None
    /\ UNCHANGED <<ds_vars, handle_vars, load_op_vars, loader_vars, import_vars, pool_vars, indirect_vars, cancel_vars, editor_vars, ctx_vars, populate_vars, location_vars, typed_vars, scope_vars, bits_vars, builder_vars, undo_vars, poolstep_vars, gather_vars>>

\* HandleFactory::make_handle_to_artifact_key, called by asset_fn, which puts
\* the handle into the asset or drops it
ProduceMakeHandleToArtifactKey ==
    /\ serde_context.current_serde_artifact.some
    /\ \E asset_id \in AssetIds, artifact_key \in ArtifactKeys, keep \in BOOLEAN :
           LET r == make_handle_to_artifact_key(serde_context, asset_id, artifact_key)
           IN  /\ create_artifact_id(asset_id, artifact_key)
                          \in DOMAIN serde_context.uuid_to_load
                  \/ serde_context.handle_gen <= MaxLoadGen
               /\ serde_context' = r.self
               /\ serde_handles' = IF keep THEN serde_handles \cup {r.ret}
                                   ELSE serde_handles
    /\ serde_event' = [serde_event EXCEPT !.op = "asset_fn"]
    /\ UNCHANGED built_artifact
    /\ UNCHANGED <<ds_vars, handle_vars, load_op_vars, loader_vars, import_vars, pool_vars, indirect_vars, cancel_vars, editor_vars, ctx_vars, populate_vars, location_vars, typed_vars, scope_vars, bits_vars, builder_vars, undo_vars, poolstep_vars, gather_vars>>

\* HandleFactory::make_handle_to_artifact_raw, called by asset_fn with the
\* null id or with the id of the artifact that is being produced
ProduceMakeHandleToArtifactRaw ==
    /\ serde_context.current_serde_artifact.some
    /\ \E id \in {NullId, serde_context.current_serde_artifact.v} :
           LET r == make_handle_within_serde_context(serde_context, id)
           IN  /\ id \in DOMAIN serde_context.uuid_to_load
                  \/ serde_context.handle_gen <= MaxLoadGen
               /\ serde_context' = r.self
               /\ serde_handles' = serde_handles \cup {r.ret}
    /\ serde_event' = [serde_event EXCEPT !.op = "asset_fn"]
    /\ UNCHANGED built_artifact
    /\ UNCHANGED <<ds_vars, handle_vars, load_op_vars, loader_vars, import_vars, pool_vars, indirect_vars, cancel_vars, editor_vars, ctx_vars, populate_vars, location_vars, typed_vars, scope_vars, bits_vars, builder_vars, undo_vars, poolstep_vars, gather_vars>>

\* asset_fn puts into the asset a handle that was made in another scope
ProduceForeignHandle ==
    /\ serde_context.current_serde_artifact.some
    /\ \E load \in 0..MaxLoadGen :
           serde_handles' = serde_handles \cup {Handle_new(load)}
    /\ serde_event' = [serde_event EXCEPT !.op = "asset_fn"]
    /\ UNCHANGED <<serde_context, built_artifact>>
    /\ UNCHANGED <<ds_vars, handle_vars, load_op_vars, loader_vars, import_vars, pool_vars, indirect_vars, cancel_vars, editor_vars, ctx_vars, populate_vars, location_vars, typed_vars, scope_vars, bits_vars, builder_vars, undo_vars, poolstep_vars, gather_vars>>

\* produce_artifact_with_handles from the return of asset_fn: the asset is
\* serialized, the dependencies are taken and the artifact is handed over
ProduceEnd ==
    /\ serde_context.current_serde_artifact.some
    /\ LET id == create_artifact_id(serde_event.asset_id, serde_event.artifact_key)
           built == serialize_asset(serde_context, serde_handles)
           referenced_assets == end_serialize_artifact(built.self)
       IN  /\ serde_context' = referenced_assets.self
           /\ built_artifact' = Some([asset_id |-> serde_event.asset_id,
                                      artifact_key |-> serde_event.artifact_key,
                                      artifact_id |-> id,
                                      dependencies |-> referenced_assets.ret,
                                      data |-> built.data])
    /\ serde_event' = [serde_event EXCEPT !.op = "produce"]
    /\ UNCHANGED serde_handles
    /\ UNCHANGED <<ds_vars, handle_vars, load_op_vars, loader_vars, import_vars, pool_vars, indirect_vars, cancel_vars, editor_vars, ctx_vars, populate_vars, location_vars, typed_vars, scope_vars, bits_vars, builder_vars, undo_vars, poolstep_vars, gather_vars>>

InitProduce ==
    DataSetIdle /\ HandleIdle /\ LoadOpIdle /\ LoaderIdle /\ ImportIdle /\ SerdeIdle /\ PoolIdle /\ IndirectIdle /\ CancelIdle /\ EditorIdle /\ ContextsIdle /\ PopulateIdle /\ LocationIdle /\ TypedIdle /\ ScopeIdle /\ BitsIdle /\ BuilderIdle /\ UndoIdle /\ PoolStepIdle /\ GatherIdle

NextProduce ==
    \/ ProduceBegin
    \/ ProduceMakeHandleToArtifactKey
    \/ ProduceMakeHandleToArtifactRaw
    \/ ProduceForeignHandle
    \/ ProduceEnd

SpecProduce == InitProduce /\ [][NextProduce]_vars

\* C15, as stated: a handle produced by deserialization has the Internal ref
\* type; deserializing it calls load_handle(artifact_id) on the active scope,
\* which adds one reference for that artifact; the handle sends no Decrease
\* when dropped, and a clone of it is Strong.
C15_DeserializedHandleAddsReference ==
    \A id \in ScopeIds :
        LET d == Handle_deserialize(serde_context, <<>>, id)
            l == load_handle(serde_context, id)
        IN  /\ d.ret.some
            /\ d.ret.v.ref_type = "Internal"
            /\ d.self = l.self /\ d.ret.v.id = l.ret.v
            /\ d.chan = <<Increase(d.ret.v.id)>>
            /\ HandleRef_drop(d.ret.v, d.chan).chan = d.chan
            /\ HandleRef_clone(d.ret.v, d.chan).clone.ref_type = "Strong"

\* C15, amended: a handle produced by deserialization inside the scope of a
\* DummySerdeContext has the Internal ref type; for an artifact id other than
\* the null id it carries the LoadHandle that load_handle(artifact_id) of the
\* scope returns, allocated by that call if the id had none, and for the null
\* id it carries LoadHandle(0) and the scope is left as it was; deserializing
\* sends no RefOp; the handle sends no Decrease when dropped, and a clone of
\* it is Strong and sends one Increase.
C15_DeserializedHandleIsInternal ==
    \A id \in ScopeIds :
        LET d == Handle_deserialize(serde_context, <<>>, id)
            l == load_handle(serde_context, id)
        IN  /\ d.ret.some
            /\ d.ret.v.ref_type = "Internal"
            /\ id # NullId => d.self = l.self /\ d.ret.v.id = l.ret.v
            /\ id = NullId => d.self = serde_context /\ d.ret.v.id = 0
            /\ d.chan = <<>>
            /\ HandleRef_drop(d.ret.v, d.chan).chan = d.chan
            /\ HandleRef_clone(d.ret.v, d.chan).clone.ref_type = "Strong"
            /\ HandleRef_clone(d.ret.v, d.chan).chan = <<Increase(d.ret.v.id)>>

\* handles were deserialized from the null id and from another id
C15_Witness ==
    /\ serde_event.op = "deserialize"
    /\ \E h \in serde_handles : h.ref_type = "Internal" /\ h.id = 0
    /\ \E h \in serde_handles : h.ref_type = "Internal" /\ h.id # 0

\* C16, as stated: inside an active serde scope, serializing a handle writes
\* exactly the 16 bytes of the artifact id its load handle maps to, and
\* deserializing those 16 bytes in the same scope yields a handle whose load
\* handle maps to the same artifact id; a sequence shorter or longer than 16
\* elements is rejected with a deserialization error and yields no handle.
C16_HandleSerdeRoundTrip ==
    /\ \A h \in serde_handles :
           h.id \in DOMAIN serde_context.load_to_uuid =>
               LET uuid == serde_context.load_to_uuid[h.id]
                   s == serialize_handle(serde_context, h.id)
                   d == Handle_deserialize(s.self, <<>>, s.ret)
               IN  /\ Len(s.ret) = 16
                   /\ s.ret = uuid
                   /\ d.ret.some
                   /\ artifact_id(d.self, d.ret.v.id).ret = Some(uuid)
    /\ \A seq \in WireSeqs :
           Len(seq) # 16 =>
               LET d == Handle_deserialize(serde_context, <<>>, seq)
               IN  ~d.ret.some /\ d.self = serde_context

\* C17: the artifact id is a function of (asset id, artifact key): with no
\* key it is the asset's UUID, with a key it is the 128-bit hash of the asset
\* id followed by the key, and the id produce_artifact assigns for
\* (asset, key) is the id the handle of
\* HandleFactory::make_handle_to_artifact_key(asset, key) refers to.
C17_ArtifactIdDerivation ==
    \A asset_id \in AssetIds, artifact_key \in ArtifactKeys :
        LET r == make_handle_to_artifact_key(serde_context, asset_id, artifact_key)
            referred == artifact_id(r.self, r.ret.id).ret
        IN  /\ ~artifact_key.some => create_artifact_id(asset_id, artifact_key) = asset_id
            /\ artifact_key.some =>
                   create_artifact_id(asset_id, artifact_key)
                       = hash128(asset_id, artifact_key.v)
            /\ referred.some
            /\ /\ serde_context.current_serde_artifact.some
               /\ asset_id = serde_event.asset_id
               /\ artifact_key = serde_event.artifact_key
               => referred.v = serde_context.current_serde_artifact.v
            /\ /\ built_artifact.some
               /\ asset_id = built_artifact.v.asset_id
               /\ artifact_key = built_artifact.v.artifact_key
               => referred.v = built_artifact.v.artifact_id

\* an artifact with a key was produced, and it holds a handle made for its
\* own asset id and key
C17_Witness ==
    /\ built_artifact.some
    /\ built_artifact.v.artifact_key.some
    /\ built_artifact.v.artifact_id # built_artifact.v.asset_id
    /\ \E h \in serde_handles :
           /\ h.id \in DOMAIN serde_context.load_to_uuid
           /\ serde_context.load_to_uuid[h.id] = built_artifact.v.artifact_id

\* C18: produce_artifact_with_handles records as the artifact's dependencies
\* exactly the artifact ids of the handles serialized into its payload, but
\* for the artifact's own id and the null id; and no dependency gathered for
\* one artifact is left when the next artifact starts.
C18_DependenciesAreSerializedHandles ==
    /\ built_artifact.some =>
           LET b == built_artifact.v
           IN  /\ b.dependencies = IdsWritten(b.data) \ {b.artifact_id, NullId}
               /\ Len(b.data) = Cardinality(serde_handles)
               /\ \A h \in serde_handles :
                      IF h.id \in DOMAIN serde_context.load_to_uuid
                      THEN serde_context.load_to_uuid[h.id] \in IdsWritten(b.data)
                      ELSE NullId \in IdsWritten(b.data)
               /\ serde_context.current_serde_dependencies = {}
               /\ ~serde_context.current_serde_artifact.some
    /\ serde_event.op = "begin" => serde_context.current_serde_dependencies = {}

\* an artifact was produced with a dependency, and with handles to itself
\* and to the null id in its payload
C18_Witness ==
    /\ built_artifact.some
    /\ built_artifact.v.dependencies # {}
    /\ built_artifact.v.artifact_id \in IdsWritten(built_artifact.v.data)
    /\ NullId \in IdsWritten(built_artifact.v.data)

\* C19: re-importing a source whose size, mtime and produced import data are
\* unchanged performs no write to the existing import-data file: the file is
\* written only when it does not exist or when its bytes differ, by hash,
\* from the newly serialized bytes.
C19_NoRewriteOfUnchangedImportData ==
    \A import_type \in ImportTypes, requested \in SUBSET ImportableAssets,
       imported \in {None} \cup {Some(i) : i \in [ImportableAssets -> BOOLEAN]} :
        LET r == do_import(import_data_files, existing_asset_import_state,
                           source_file, import_type, requested, imported)
            produced == ImportDataMetadata(
                            source_file_modified_timestamp(source_file),
                            source_file_size(source_file),
                            import_data_contents_hash(source_file.contents))
        IN  \A a \in ImportableAssets :
                /\ import_data_files[a] = Some(produced) => a \notin r.written
                /\ a \in r.written =>
                       \/ ~import_data_files[a].some
                       \/ data_hash(import_data_files[a].v) # data_hash(r.files[a].v)
                /\ a \notin r.written => r.files[a] = import_data_files[a]

\* import_file ran again for importables whose import data had been written
\* since the source file last changed, and every import-data file holds what
\* an import of the source file produces
C19_Witness ==
    /\ import_event.import_type = "ImportAlways"
    /\ import_event.invoked
    /\ import_event.imported_before
    /\ ~import_event.mtime_changed_before
    /\ \A a \in ImportableAssets :
           import_data_files[a] = Some(ImportDataMetadata(
                                           source_file_modified_timestamp(source_file),
                                           source_file_size(source_file),
                                           import_data_contents_hash(source_file.contents)))

\* C20: an error in any step of importing one importable terminates that
\* importable only: the other importables of the same request are still
\* imported and reported, and the outcome of the request carries Err for the
\* failed importable together with the originating request.
C20_ErrorTerminatesOneImportableOnly ==
    \A import_type \in ImportTypes, requested \in SUBSET ImportableAssets :
        \A failed \in requested :
            \* import_file returns an error, met at the importable failed
            LET r == do_import(import_data_files, existing_asset_import_state,
                               source_file, import_type, requested, None)
            IN  r.invoked =>
                    /\ r.result.some
                    /\ \A a \in requested \ {failed} : a \in DOMAIN r.result.v
                    /\ failed \notin DOMAIN r.result.v

-----------------------------------------------------------------------------
(* Import worker pool: hydrate-pipeline/src/import_thread_pool.rs *)

MaxRequestsInFlight == 2
MaxRequests == 3

\* one worker more than max_requests_in_flight
worker_thread_indices_one_more(max_requests_in_flight) == 0..max_requests_in_flight

\* ImportWorkerThreadPool::new: the thread_index of the workers it spawns
worker_thread_indices(max_requests_in_flight) == 0..(max_requests_in_flight - 1)

WorkerIdle == [state |-> "idle"]
WorkerBusy(request) == [state |-> "busy", request |-> request]
WorkerDead == [state |-> "dead"]

\* the workers that run do_import
BusyWorkers == {w \in DOMAIN worker_threads : worker_threads[w].state = "busy"}

\* ImportWorkerThreadPool::add_request
PoolAddRequest ==
    /\ requests_added < MaxRequests
    /\ \E asset \in ImportableAssets :
           request_queue' = Append(request_queue,
                                   [id |-> requests_added + 1, asset |-> asset])
    /\ active_request_count' = active_request_count + 1
    /\ requests_added' = requests_added + 1
    /\ UNCHANGED <<worker_threads, result_queue>>
    /\ UNCHANGED <<ds_vars, handle_vars, load_op_vars, loader_vars, import_vars, serde_vars, indirect_vars, cancel_vars, editor_vars, ctx_vars, populate_vars, location_vars, typed_vars, scope_vars, bits_vars, builder_vars, undo_vars, poolstep_vars, gather_vars>>

\* the loop of a worker receives the next request from request_rx
WorkerRecv(w) ==
    /\ worker_threads[w].state = "idle"
    /\ request_queue # <<>>
    /\ worker_threads' = [worker_threads EXCEPT ![w] = WorkerBusy(Head(request_queue))]
    /\ request_queue' = Tail(request_queue)
    /\ UNCHANGED <<result_queue, active_request_count, requests_added>>
    /\ UNCHANGED <<ds_vars, handle_vars, load_op_vars, loader_vars, import_vars, serde_vars, indirect_vars, cancel_vars, editor_vars, ctx_vars, populate_vars, location_vars, typed_vars, scope_vars, bits_vars, builder_vars, undo_vars, poolstep_vars, gather_vars>>

\* do_import returns, with Ok or with Err: the worker sends the outcome and
\* decrements the count
WorkerComplete(w) ==
    /\ worker_threads[w].state = "busy"
    /\ \E result \in {"Ok", "Err"} :
           result_queue' = Append(result_queue,
                                  [request |-> worker_threads[w].request,
                                   result |-> result])
    /\ active_request_count' = active_request_count - 1
    /\ worker_threads' = [worker_threads EXCEPT ![w] = WorkerIdle]
    /\ UNCHANGED <<request_queue, requests_added>>
    /\ UNCHANGED <<ds_vars, handle_vars, load_op_vars, loader_vars, import_vars, serde_vars, indirect_vars, cancel_vars, editor_vars, ctx_vars, populate_vars, location_vars, typed_vars, scope_vars, bits_vars, builder_vars, undo_vars, poolstep_vars, gather_vars>>

\* do_import panics, in the importer or at one of its unwrap() calls: nothing
\* catches the unwinding, which ends the closure of the thread
WorkerPanic(w) ==
    /\ worker_threads[w].state = "busy"
    /\ worker_threads' = [worker_threads EXCEPT ![w] = WorkerDead]
    /\ UNCHANGED <<request_queue, result_queue, active_request_count, requests_added>>
    /\ UNCHANGED <<ds_vars, handle_vars, load_op_vars, loader_vars, import_vars, serde_vars, indirect_vars, cancel_vars, editor_vars, ctx_vars, populate_vars, location_vars, typed_vars, scope_vars, bits_vars, builder_vars, undo_vars, poolstep_vars, gather_vars>>

InitPool ==
    /\ DataSetIdle /\ HandleIdle /\ LoadOpIdle /\ LoaderIdle /\ ImportIdle /\ SerdeIdle
    /\ IndirectIdle /\ CancelIdle /\ EditorIdle /\ ContextsIdle /\ PopulateIdle /\ LocationIdle /\ TypedIdle /\ ScopeIdle /\ BitsIdle /\ BuilderIdle /\ UndoIdle /\ PoolStepIdle /\ GatherIdle
    /\ request_queue = <<>>
    /\ worker_threads = [w \in worker_thread_indices(MaxRequestsInFlight) |-> WorkerIdle]
    /\ result_queue = <<>>
    /\ active_request_count = 0
    /\ requests_added = 0

NextPool ==
    \/ PoolAddRequest
    \/ \E w \in DOMAIN worker_threads : WorkerRecv(w)
    \/ \E w \in DOMAIN worker_threads : WorkerComplete(w)
    \/ \E w \in DOMAIN worker_threads : WorkerPanic(w)

\* a thread that can receive a request does so, and a do_import that does
\* not panic returns
SpecPool ==
    /\ InitPool /\ [][NextPool]_vars
    /\ WF_vars(\E w \in DOMAIN worker_threads : WorkerRecv(w))
    /\ \A w \in worker_thread_indices(MaxRequestsInFlight) : WF_vars(WorkerComplete(w))

\* the outcomes on the result channel that answer request n
OutcomesOf(n) == {i \in DOMAIN result_queue : result_queue[i].request.id = n}

\* C21: every request handed to the pool eventually yields exactly one
\* outcome on the result channel, also when the importer panics or a step of
\* the worker fails; the active request count is decremented and the worker
\* goes on serving later requests.
C21_EveryRequestYieldsOneOutcome ==
    \A n \in 1..MaxRequests :
        (requests_added >= n) ~>
            (/\ Cardinality(OutcomesOf(n)) = 1
             /\ active_request_count <= requests_added - 1)

\* C22: when two requests for the same asset id are added in the order r1
\* then r2, their outcomes appear on the result channel in the order r1 then
\* r2, for any number of worker threads.
C22_OutcomesInSubmissionOrderPerAsset ==
    \A i, j \in DOMAIN result_queue :
        /\ i < j
        /\ result_queue[i].request.asset = result_queue[j].request.asset
        => result_queue[i].request.id < result_queue[j].request.id

\* C23: at no time do more than max_requests_in_flight requests execute,
\* however many were added; the others wait in the request queue, in the
\* order of add_request, until a worker is free.
C23_AtMostMaxRequestsInFlight ==
    /\ Cardinality(BusyWorkers) <= MaxRequestsInFlight
    /\ \A i \in DOMAIN request_queue :
           request_queue[i].id = requests_added - Len(request_queue) + i
    /\ \A w \in BusyWorkers :
           /\ worker_threads[w].request.id <= requests_added - Len(request_queue)
           /\ OutcomesOf(worker_threads[w].request.id) = {}
           /\ \A v \in BusyWorkers \ {w} :
                  worker_threads[v].request.id # worker_threads[w].request.id

\* every worker executes a request and another request waits in the queue
C23_Witness ==
    /\ Cardinality(BusyWorkers) = MaxRequestsInFlight
    /\ request_queue # <<>>

-----------------------------------------------------------------------------
(* Indirect handles: hydrate-loader/src/storage.rs, IndirectionTable; the   *)
(* rebinding is the loader's                                                *)

\* the indirect LoadHandles: the high bit of the 64 is set
IndirectHandles == {0 - h : h \in LoadHandles}

\* IndirectionTable::resolve
IndirectionTable_resolve(table, indirect_handle) ==
    IF indirect_handle \in DOMAIN table THEN Some(table[indirect_handle]) ELSE None

\* a first step of rebinding that releases the old target
rebind_decrement_first(refs, old, new) == [refs EXCEPT ![old] = @ - 1]

\* the first step of rebinding: the reference to the new target is added
rebind_increment(refs, old, new) == [refs EXCEPT ![new] = @ + 1]

\* add_ref_indirect: an identifier is resolved to an artifact for the first time
IndirectAddRef ==
    /\ ~rebind_pending.some
    /\ \E indirect \in IndirectHandles \ DOMAIN indirection_table, id \in LoadHandles :
           /\ indirection_table' = MapInsert(indirection_table, indirect, id)
           /\ direct_refs' = [direct_refs EXCEPT ![id] = @ + 1]
    /\ rebind_event' = None
    /\ UNCHANGED rebind_pending
    /\ UNCHANGED <<ds_vars, handle_vars, load_op_vars, loader_vars, import_vars, serde_vars,
                   pool_vars, cancel_vars, editor_vars, ctx_vars, populate_vars, location_vars, typed_vars, scope_vars, bits_vars, builder_vars, undo_vars, poolstep_vars, gather_vars>>

\* the references to a direct handle that indirect handles hold
IndirectRefs(id) ==
    Cardinality({indirect \in DOMAIN indirection_table : indirection_table[indirect] = id})

\* add_ref: the application takes a reference to an artifact by its id
IndirectDirectAddRef ==
    /\ ~rebind_pending.some
    /\ \E id \in LoadHandles :
           /\ direct_refs[id] - IndirectRefs(id) < MaxRefs
           /\ direct_refs' = [direct_refs EXCEPT ![id] = @ + 1]
    /\ rebind_event' = None
    /\ UNCHANGED <<indirection_table, rebind_pending>>
    /\ UNCHANGED <<ds_vars, handle_vars, load_op_vars, loader_vars, import_vars, serde_vars,
                   pool_vars, cancel_vars, editor_vars, ctx_vars, populate_vars, location_vars, typed_vars, scope_vars, bits_vars, builder_vars, undo_vars, poolstep_vars, gather_vars>>

\* remove_ref: the application drops a reference it took by id
IndirectDirectRemoveRef ==
    /\ ~rebind_pending.some
    /\ \E id \in LoadHandles :
           /\ direct_refs[id] - IndirectRefs(id) > 0
           /\ direct_refs' = [direct_refs EXCEPT ![id] = @ - 1]
    /\ rebind_event' = None
    /\ UNCHANGED <<indirection_table, rebind_pending>>
    /\ UNCHANGED <<ds_vars, handle_vars, load_op_vars, loader_vars, import_vars, serde_vars,
                   pool_vars, cancel_vars, editor_vars, ctx_vars, populate_vars, location_vars, typed_vars, scope_vars, bits_vars, builder_vars, undo_vars, poolstep_vars, gather_vars>>

\* the identifier of an indirect handle now points to another artifact: the
\* loader takes the reference to the new target
IndirectRebindBegin ==
    /\ ~rebind_pending.some
    /\ \E indirect \in DOMAIN indirection_table, id2 \in LoadHandles :
           /\ id2 # indirection_table[indirect]
           /\ direct_refs' = rebind_increment(direct_refs,
                                               indirection_table[indirect], id2)
           /\ rebind_pending' = Some([indirect |-> indirect,
                                      old |-> indirection_table[indirect],
                                      new |-> id2,
                                      refs_before |-> direct_refs])
    /\ rebind_event' = None
    /\ UNCHANGED indirection_table
    /\ UNCHANGED <<ds_vars, handle_vars, load_op_vars, loader_vars, import_vars, serde_vars,
                   pool_vars, cancel_vars, editor_vars, ctx_vars, populate_vars, location_vars, typed_vars, scope_vars, bits_vars, builder_vars, undo_vars, poolstep_vars, gather_vars>>

\* the loader binds the handle to the new target and releases the old one
IndirectRebindEnd ==
    /\ rebind_pending.some
    /\ indirection_table' = MapInsert(indirection_table, rebind_pending.v.indirect,
                                      rebind_pending.v.new)
    /\ direct_refs' = [direct_refs EXCEPT ![rebind_pending.v.old] = @ - 1]
    /\ rebind_event' = rebind_pending
    /\ rebind_pending' = None
    /\ UNCHANGED <<ds_vars, handle_vars, load_op_vars, loader_vars, import_vars, serde_vars,
                   pool_vars, cancel_vars, editor_vars, ctx_vars, populate_vars, location_vars, typed_vars, scope_vars, bits_vars, builder_vars, undo_vars, poolstep_vars, gather_vars>>

InitIndirect ==
    /\ DataSetIdle /\ HandleIdle /\ LoadOpIdle /\ LoaderIdle /\ ImportIdle /\ SerdeIdle
    /\ PoolIdle /\ IndirectIdle /\ CancelIdle /\ EditorIdle /\ ContextsIdle /\ PopulateIdle /\ LocationIdle /\ TypedIdle /\ ScopeIdle /\ BitsIdle /\ BuilderIdle /\ UndoIdle /\ PoolStepIdle /\ GatherIdle

NextIndirect ==
    \/ IndirectAddRef
    \/ IndirectDirectAddRef
    \/ IndirectDirectRemoveRef
    \/ IndirectRebindBegin
    \/ IndirectRebindEnd

SpecIndirect == InitIndirect /\ [][NextIndirect]_vars

\* C24: rebinding an indirect handle from Id1 to Id2 increments the strong
\* refcount of Id2 before it decrements Id1's; afterwards resolve(indirect)
\* yields the direct load handle of Id2, Id1's refcount is one lower and
\* Id2's one higher than before; resolve of an indirect handle that has no
\* binding yields no handle.
C24_RebindIncrementsBeforeDecrement ==
    /\ rebind_pending.some =>
           LET r == rebind_pending.v
           IN  /\ direct_refs[r.new] = r.refs_before[r.new] + 1
               /\ direct_refs[r.old] = r.refs_before[r.old]
               /\ direct_refs[r.old] > 0
    /\ rebind_event.some =>
           LET r == rebind_event.v
           IN  /\ IndirectionTable_resolve(indirection_table, r.indirect) = Some(r.new)
               /\ direct_refs[r.old] = r.refs_before[r.old] - 1
               /\ direct_refs[r.new] = r.refs_before[r.new] + 1
    /\ \A indirect \in IndirectHandles \ DOMAIN indirection_table :
           IndirectionTable_resolve(indirection_table, indirect) = None
    /\ \A id \in LoadHandles : direct_refs[id] >= 0

\* a rebinding was completed between two artifacts that had other references,
\* and an indirect handle has no binding
C24_Witness ==
    /\ rebind_event.some
    /\ rebind_event.v.refs_before[rebind_event.v.old] > 1
    /\ rebind_event.v.refs_before[rebind_event.v.new] > 0
    /\ IndirectHandles \ DOMAIN indirection_table # {}

-----------------------------------------------------------------------------
(* Cancellation of a load: the I/O completions and the HandleOps of         *)
(* hydrate-loader/src/storage.rs come back to the loader after the load     *)
(* they belong to may have been abandoned (section 4.8)                     *)

MaxLoads == 2

\* a request to the I/O layer or a HandleOp, marked with the load it is for
LoadMessage(kind, handle, generation) ==
    [kind |-> kind, handle |-> handle, generation |-> generation]

\* the three outcomes of an AssetLoadOp
HandleOpKinds == {"Complete", "Error", "Drop"}

\* the load handles whose loads are followed here
CancelHandles == {1}

\* a loader that takes every message the state of the handle is waiting for
load_message_any(generations, states, message, expected_state) ==
    states[message.handle] = expected_state

\* the message is for the load that is under way, and that load waits for it
load_message_is_current(generations, states, message, expected_state) ==
    /\ message.generation = generations[message.handle]
    /\ states[message.handle] = expected_state

\* the loader goes on with a load only while the handle is referenced
load_message_accepted(refs, generations, states, message, expected_state) ==
    /\ refs[message.handle] > 0
    /\ load_message_is_current(generations, states, message, expected_state)

\* the message belongs to a load that was torn down since the message was sent
abandoned(generations, states, message) ==
    \/ message.generation < generations[message.handle]
    \/ states[message.handle] = "Unloaded"

\* add_ref; the first reference to an Unloaded handle starts a load and asks
\* the I/O layer for the metadata
CancelAddRef ==
    /\ \E h \in CancelHandles :
           /\ user_refs[h] < MaxRefs
           /\ user_refs' = [user_refs EXCEPT ![h] = @ + 1]
           /\ IF load_state[h] = "Unloaded"
              THEN /\ load_generation[h] < MaxLoads
                   /\ load_state' = [load_state EXCEPT ![h] = "WaitingForMetadata"]
                   /\ load_generation' = [load_generation EXCEPT ![h] = @ + 1]
                   /\ in_flight' = in_flight \cup
                          {LoadMessage("Metadata", h, load_generation[h] + 1)}
              ELSE UNCHANGED <<load_state, load_generation, in_flight>>
    /\ UNCHANGED cancel_event
    /\ UNCHANGED <<load_version, metadata_deps, committed_version, reload_state,
                   committed_group>>
    /\ UNCHANGED <<ds_vars, handle_vars, load_op_vars, import_vars, serde_vars, pool_vars,
                   indirect_vars, editor_vars, ctx_vars, populate_vars, location_vars, typed_vars, scope_vars, bits_vars, builder_vars, undo_vars, poolstep_vars, gather_vars>>

\* the I/O layer answers a metadata request: the artifact has no dependencies
\* to wait for, and its payload is requested
CancelMetadataArrived ==
    /\ \E m \in in_flight :
           /\ m.kind = "Metadata"
           /\ IF load_message_accepted(user_refs, load_generation, load_state, m,
                                       "WaitingForMetadata")
              THEN /\ load_state' = [load_state EXCEPT ![m.handle] = "WaitingForData"]
                   /\ in_flight' = (in_flight \ {m}) \cup
                          {LoadMessage("Data", m.handle, m.generation)}
                   /\ cancel_event' = Some([message |-> m, discarded |-> FALSE])
              ELSE /\ in_flight' = in_flight \ {m}
                   /\ cancel_event' = Some([message |-> m, discarded |-> TRUE])
                   /\ UNCHANGED load_state
    /\ UNCHANGED <<user_refs, load_version, metadata_deps, committed_version,
                   reload_state, committed_group, load_generation>>
    /\ UNCHANGED <<ds_vars, handle_vars, load_op_vars, import_vars, serde_vars, pool_vars,
                   indirect_vars, editor_vars, ctx_vars, populate_vars, location_vars, typed_vars, scope_vars, bits_vars, builder_vars, undo_vars, poolstep_vars, gather_vars>>

\* the I/O layer answers a data request: the payload goes to update_asset
\* with an AssetLoadOp, which the storage ends in one of the three ways
CancelDataArrived ==
    /\ \E m \in in_flight, kind \in HandleOpKinds :
           /\ m.kind = "Data"
           /\ IF load_message_accepted(user_refs, load_generation, load_state, m,
                                       "WaitingForData")
              THEN /\ load_state' = [load_state EXCEPT ![m.handle] = "Loading"]
                   /\ in_flight' = (in_flight \ {m}) \cup
                          {LoadMessage(kind, m.handle, m.generation)}
                   /\ cancel_event' = Some([message |-> m, discarded |-> FALSE])
              ELSE /\ in_flight' = in_flight \ {m}
                   /\ cancel_event' = Some([message |-> m, discarded |-> TRUE])
                   /\ UNCHANGED load_state
    /\ UNCHANGED <<user_refs, load_version, metadata_deps, committed_version,
                   reload_state, committed_group, load_generation>>
    /\ UNCHANGED <<ds_vars, handle_vars, load_op_vars, import_vars, serde_vars, pool_vars,
                   indirect_vars, editor_vars, ctx_vars, populate_vars, location_vars, typed_vars, scope_vars, bits_vars, builder_vars, undo_vars, poolstep_vars, gather_vars>>

\* a HandleOp comes back: Complete makes the load Loaded, Error and Drop end it
CancelLoadResult ==
    /\ \E m \in in_flight :
           /\ m.kind \in HandleOpKinds
           /\ IF load_message_accepted(user_refs, load_generation, load_state, m,
                                       "Loading")
              THEN /\ load_state' = [load_state EXCEPT ![m.handle] =
                          IF m.kind = "Complete" THEN "Loaded" ELSE "Unloaded"]
                   /\ cancel_event' = Some([message |-> m, discarded |-> FALSE])
              ELSE /\ cancel_event' = Some([message |-> m, discarded |-> TRUE])
                   /\ UNCHANGED load_state
           /\ in_flight' = in_flight \ {m}
    /\ UNCHANGED <<user_refs, load_version, metadata_deps, committed_version,
                   reload_state, committed_group, load_generation>>
    /\ UNCHANGED <<ds_vars, handle_vars, load_op_vars, import_vars, serde_vars, pool_vars,
                   indirect_vars, editor_vars, ctx_vars, populate_vars, location_vars, typed_vars, scope_vars, bits_vars, builder_vars, undo_vars, poolstep_vars, gather_vars>>

\* remove_ref
CancelRemoveRef ==
    /\ \E h \in CancelHandles :
           /\ user_refs[h] > 0
           /\ user_refs' = [user_refs EXCEPT ![h] = @ - 1]
    /\ UNCHANGED <<load_state, load_version, metadata_deps, committed_version,
                   reload_state, committed_group, cancel_vars, editor_vars, ctx_vars, populate_vars, location_vars, typed_vars, scope_vars, bits_vars, builder_vars, undo_vars, poolstep_vars, gather_vars>>
    /\ UNCHANGED <<ds_vars, handle_vars, load_op_vars, import_vars, serde_vars, pool_vars,
                   indirect_vars, editor_vars, ctx_vars, populate_vars, location_vars, typed_vars, scope_vars, bits_vars, builder_vars, undo_vars, poolstep_vars, gather_vars>>

\* the refcount is back at zero: the loader tears the load down
CancelUnload ==
    /\ \E h \in CancelHandles :
           /\ load_state[h] # "Unloaded"
           /\ user_refs[h] = 0
           /\ load_state' = [load_state EXCEPT ![h] = "Unloaded"]
           /\ committed_version' = [committed_version EXCEPT ![h] = 0]
    /\ UNCHANGED <<user_refs, load_version, metadata_deps, reload_state, committed_group,
                   cancel_vars, editor_vars, ctx_vars, populate_vars, location_vars, typed_vars, scope_vars, bits_vars, builder_vars, undo_vars, poolstep_vars, gather_vars>>
    /\ UNCHANGED <<ds_vars, handle_vars, load_op_vars, import_vars, serde_vars, pool_vars,
                   indirect_vars, editor_vars, ctx_vars, populate_vars, location_vars, typed_vars, scope_vars, bits_vars, builder_vars, undo_vars, poolstep_vars, gather_vars>>

\* the loaded artifact is committed: AssetStorage::commit_asset_version
CancelCommit ==
    /\ \E h \in CancelHandles :
           /\ load_state[h] = "Loaded"
           /\ user_refs[h] > 0
           /\ load_state' = [load_state EXCEPT ![h] = "Committed"]
           /\ committed_version' = [committed_version EXCEPT ![h] = load_version[h]]
    /\ UNCHANGED <<user_refs, load_version, metadata_deps, reload_state, committed_group,
                   cancel_vars, editor_vars, ctx_vars, populate_vars, location_vars, typed_vars, scope_vars, bits_vars, builder_vars, undo_vars, poolstep_vars, gather_vars>>
    /\ UNCHANGED <<ds_vars, handle_vars, load_op_vars, import_vars, serde_vars, pool_vars,
                   indirect_vars, editor_vars, ctx_vars, populate_vars, location_vars, typed_vars, scope_vars, bits_vars, builder_vars, undo_vars, poolstep_vars, gather_vars>>

InitCancel ==
    /\ DataSetIdle /\ HandleIdle /\ LoadOpIdle /\ LoaderIdle /\ ImportIdle /\ SerdeIdle
    /\ PoolIdle /\ IndirectIdle /\ CancelIdle /\ EditorIdle /\ ContextsIdle /\ PopulateIdle /\ LocationIdle /\ TypedIdle /\ ScopeIdle /\ BitsIdle /\ BuilderIdle /\ UndoIdle /\ PoolStepIdle /\ GatherIdle

NextCancel ==
    \/ CancelAddRef
    \/ CancelRemoveRef
    \/ CancelUnload
    \/ CancelMetadataArrived
    \/ CancelDataArrived
    \/ CancelLoadResult
    \/ CancelCommit

SpecCancel == InitCancel /\ [][NextCancel]_vars

\* C25: a handle whose strong refcount is zero before commit changes its
\* state only to Unloaded, and the step in which the loader takes an I/O
\* completion or a load result (Complete, Error, Drop) of an abandoned load
\* leaves the state of every handle and every committed version as it was:
\* the handle is not moved to Loaded or Committed and no data becomes visible.
C25_LateResultsAreDiscarded ==
    [][/\ \A h \in LoadHandles :
              (user_refs[h] = 0 /\ user_refs'[h] = 0 /\ load_state'[h] # load_state[h])
                  => load_state'[h] = "Unloaded" /\ committed_version'[h] = 0
       /\ \A m \in in_flight :
              (m \notin in_flight' /\ abandoned(load_generation, load_state, m))
                  => /\ load_state' = load_state
                     /\ committed_version' = committed_version]_vars

\* the Complete of an abandoned load was discarded while the next load of the
\* same handle was waiting for its own result
C25_Witness ==
    /\ cancel_event.some
    /\ cancel_event.v.discarded
    /\ cancel_event.v.message.kind = "Complete"
    /\ load_state[cancel_event.v.message.handle] = "Loading"
    /\ load_generation[cancel_event.v.message.handle] > cancel_event.v.message.generation

-----------------------------------------------------------------------------
(* Saving and reverting the root edit context:                              *)
(* hydrate-model/src/editor/editor_model.rs; the edit context itself is     *)
(* that of section 4.3                                                      *)

MaxUndoEntries == 2

EditorAssets == {1, 2}
EditorValues == {0, 1}
DataSources == {1, 2}

\* the data source an asset is stored by
source_of(asset) == asset

\* the snapshot a pending undo context keeps and the assets edited since
UndoContext(before, edited) == [before |-> before, objects |-> edited]

\* an edit context as far as save and revert touch it
EditContextState(data_set, modified_objects, pending, entries) ==
    [data_set |-> data_set, modified_objects |-> modified_objects,
     pending |-> pending, entries |-> entries]

RootEditContext ==
    EditContextState(root_data_set, root_modified_objects, root_pending, undo_entries)

\* a commit that leaves the pending undo context open
commit_nothing(context) == context

\* commit_pending_undo_context: the pending edits become one entry of the
\* undo stack and their assets enter the change tracker
commit_pending_undo_context(context) ==
    IF context.pending.some
    THEN EditContextState(context.data_set,
                          context.modified_objects \cup context.pending.v.objects,
                          None, context.entries + 1)
    ELSE context

\* cancel_pending_undo_context: the pending edits are rolled back
cancel_pending_undo_context(context) ==
    IF context.pending.some
    THEN EditContextState(context.pending.v.before, context.modified_objects,
                          None, context.entries)
    ELSE context

\* clear_change_tracking, take_modified_objects_and_locations
clear_change_tracking(context) ==
    EditContextState(context.data_set, {}, context.pending, context.entries)

\* DataSource::flush_to_storage: the modified assets of the source are written
flush_to_storage(storage, source, context) ==
    [a \in EditorAssets |->
        IF source_of(a) = source /\ a \in context.modified_objects
        THEN context.data_set[a] ELSE storage[a]]

\* DataSource::load_from_storage: the assets of the source are read back
load_from_storage(storage, source, context, tracked) ==
    EditContextState([a \in EditorAssets |->
                         IF source_of(a) = source THEN storage[a]
                         ELSE context.data_set[a]],
                     context.modified_objects \cup tracked,
                     context.pending, context.entries)

SetRootEditContext(context) ==
    /\ root_data_set' = context.data_set
    /\ root_modified_objects' = context.modified_objects
    /\ root_pending' = context.pending
    /\ undo_entries' = context.entries

\* an asset of the root context is edited inside the pending undo context
EditorEdit ==
    /\ editor_pc.op = "idle"
    /\ undo_entries < MaxUndoEntries
    /\ \E a \in EditorAssets, v \in EditorValues :
           /\ v # root_data_set[a]
           /\ root_data_set' = [root_data_set EXCEPT ![a] = v]
           /\ root_pending' =
                  IF root_pending.some
                  THEN Some(UndoContext(root_pending.v.before,
                                        root_pending.v.objects \cup {a}))
                  ELSE Some(UndoContext(root_data_set, {a}))
    /\ UNCHANGED <<root_modified_objects, undo_entries, source_storage, editor_pc>>
    /\ UNCHANGED <<ds_vars, handle_vars, load_op_vars, loader_vars, import_vars, serde_vars,
                   pool_vars, indirect_vars, cancel_vars, ctx_vars, populate_vars, location_vars, typed_vars, scope_vars, bits_vars, builder_vars, undo_vars, poolstep_vars, gather_vars>>

\* the editor commits the pending undo context
EditorCommitPending ==
    /\ editor_pc.op = "idle"
    /\ root_pending.some
    /\ SetRootEditContext(commit_pending_undo_context(RootEditContext))
    /\ UNCHANGED <<source_storage, editor_pc>>
    /\ UNCHANGED <<ds_vars, handle_vars, load_op_vars, loader_vars, import_vars, serde_vars,
                   pool_vars, indirect_vars, cancel_vars, ctx_vars, populate_vars, location_vars, typed_vars, scope_vars, bits_vars, builder_vars, undo_vars, poolstep_vars, gather_vars>>

\* save_root_edit_context, first statement
SaveCommitPending ==
    /\ editor_pc.op = "idle"
    /\ SetRootEditContext(commit_pending_undo_context(RootEditContext))
    /\ editor_pc' = [op |-> "save", sources |-> DataSources]
    /\ UNCHANGED source_storage
    /\ UNCHANGED <<ds_vars, handle_vars, load_op_vars, loader_vars, import_vars, serde_vars,
                   pool_vars, indirect_vars, cancel_vars, ctx_vars, populate_vars, location_vars, typed_vars, scope_vars, bits_vars, builder_vars, undo_vars, poolstep_vars, gather_vars>>

\* save_root_edit_context, one turn of the loop over the data sources
SaveFlush ==
    /\ editor_pc.op = "save"
    /\ \E source \in editor_pc.sources :
           /\ source_storage' = flush_to_storage(source_storage, source, RootEditContext)
           /\ editor_pc' = [editor_pc EXCEPT !.sources = @ \ {source}]
    /\ UNCHANGED <<root_data_set, root_modified_objects, root_pending, undo_entries>>
    /\ UNCHANGED <<ds_vars, handle_vars, load_op_vars, loader_vars, import_vars, serde_vars,
                   pool_vars, indirect_vars, cancel_vars, ctx_vars, populate_vars, location_vars, typed_vars, scope_vars, bits_vars, builder_vars, undo_vars, poolstep_vars, gather_vars>>

\* save_root_edit_context, last statement
SaveClearChangeTracking ==
    /\ editor_pc.op = "save"
    /\ editor_pc.sources = {}
    /\ SetRootEditContext(clear_change_tracking(RootEditContext))
    /\ editor_pc' = [op |-> "idle"]
    /\ UNCHANGED source_storage
    /\ UNCHANGED <<ds_vars, handle_vars, load_op_vars, loader_vars, import_vars, serde_vars,
                   pool_vars, indirect_vars, cancel_vars, ctx_vars, populate_vars, location_vars, typed_vars, scope_vars, bits_vars, builder_vars, undo_vars, poolstep_vars, gather_vars>>

\* revert_root_edit_context up to the loop: the pending edits are cancelled
\* and the modified objects are taken out of the change tracker
RevertCancelPending ==
    /\ editor_pc.op = "idle"
    /\ SetRootEditContext(
           clear_change_tracking(cancel_pending_undo_context(RootEditContext)))
    /\ editor_pc' = [op |-> "revert", sources |-> DataSources]
    /\ UNCHANGED source_storage
    /\ UNCHANGED <<ds_vars, handle_vars, load_op_vars, loader_vars, import_vars, serde_vars,
                   pool_vars, indirect_vars, cancel_vars, ctx_vars, populate_vars, location_vars, typed_vars, scope_vars, bits_vars, builder_vars, undo_vars, poolstep_vars, gather_vars>>

\* revert_root_edit_context, one turn of the loop over the data sources; what
\* a reload leaves in the change tracker is up to the data source
RevertLoad ==
    /\ editor_pc.op = "revert"
    /\ \E source \in editor_pc.sources :
       \E tracked \in SUBSET {a \in EditorAssets : source_of(a) = source} :
           /\ SetRootEditContext(
                  load_from_storage(source_storage, source, RootEditContext, tracked))
           /\ editor_pc' = [editor_pc EXCEPT !.sources = @ \ {source}]
    /\ UNCHANGED source_storage
    /\ UNCHANGED <<ds_vars, handle_vars, load_op_vars, loader_vars, import_vars, serde_vars,
                   pool_vars, indirect_vars, cancel_vars, ctx_vars, populate_vars, location_vars, typed_vars, scope_vars, bits_vars, builder_vars, undo_vars, poolstep_vars, gather_vars>>

\* revert_root_edit_context, last statement
RevertClearChangeTracking ==
    /\ editor_pc.op = "revert"
    /\ editor_pc.sources = {}
    /\ SetRootEditContext(clear_change_tracking(RootEditContext))
    /\ editor_pc' = [op |-> "idle"]
    /\ UNCHANGED source_storage
    /\ UNCHANGED <<ds_vars, handle_vars, load_op_vars, loader_vars, import_vars, serde_vars,
                   pool_vars, indirect_vars, cancel_vars, ctx_vars, populate_vars, location_vars, typed_vars, scope_vars, bits_vars, builder_vars, undo_vars, poolstep_vars, gather_vars>>

\* the data sources have been loaded: memory and storage agree
InitSaveRevert ==
    /\ root_data_set = [a \in EditorAssets |-> 0]
    /\ root_modified_objects = {}
    /\ root_pending = None
    /\ undo_entries = 0
    /\ source_storage = [a \in EditorAssets |-> 0]
    /\ editor_pc = [op |-> "idle"]
    /\ DataSetIdle /\ HandleIdle /\ LoadOpIdle /\ LoaderIdle /\ ImportIdle /\ SerdeIdle
    /\ PoolIdle /\ IndirectIdle /\ CancelIdle /\ ContextsIdle /\ PopulateIdle /\ LocationIdle /\ TypedIdle /\ ScopeIdle /\ BitsIdle /\ BuilderIdle /\ UndoIdle /\ PoolStepIdle /\ GatherIdle

NextSaveRevert ==
    \/ EditorEdit
    \/ EditorCommitPending
    \/ SaveCommitPending
    \/ SaveFlush
    \/ SaveClearChangeTracking
    \/ RevertCancelPending
    \/ RevertLoad
    \/ RevertClearChangeTracking

SpecSaveRevert == InitSaveRevert /\ [][NextSaveRevert]_vars

\* C27: save_root_edit_context first commits the pending undo context of the
\* root context (one more undo entry, its assets in the change tracker), the
\* data sources flush only after that, and the change tracker is empty when
\* it returns; revert_root_edit_context first rolls the pending undo context
\* back (no undo entry, the data set as before the pending edits), the data
\* sources reload only after that, and the change tracker is empty when it
\* returns.
C27_SaveCommitsRevertCancelsFirst ==
    [][/\ (editor_pc.op = "idle" /\ editor_pc'.op = "save")
              => /\ root_pending' = None
                 /\ source_storage' = source_storage
                 /\ root_data_set' = root_data_set
                 /\ root_pending.some
                        => /\ undo_entries' = undo_entries + 1
                           /\ root_pending.v.objects \subseteq root_modified_objects'
       /\ (editor_pc.op = "idle" /\ editor_pc'.op = "revert")
              => /\ root_pending' = None
                 /\ source_storage' = source_storage
                 /\ undo_entries' = undo_entries
                 /\ root_pending.some => root_data_set' = root_pending.v.before
       /\ source_storage' # source_storage
              => editor_pc.op = "save" /\ root_pending = None
       /\ (editor_pc.op = "revert" /\ root_data_set' # root_data_set)
              => root_pending = None
       /\ (editor_pc.op # "idle" /\ editor_pc'.op = "idle")
              => root_modified_objects' = {} /\ root_pending' = None]_vars

\* a revert has reloaded every data source after an earlier save had written
\* committed edits to storage, and the reload left marks in the change tracker
C27_Witness ==
    /\ editor_pc.op = "revert"
    /\ editor_pc.sources = {}
    /\ undo_entries > 0
    /\ \E a \in EditorAssets : source_storage[a] # 0
    /\ root_modified_objects # {}

-----------------------------------------------------------------------------
(* Scratch edit contexts: hydrate-model/src/editor/editor_model.rs,         *)
(* open_edit_context, flush_edit_context_to_root, close_edit_context        *)

\* root_edit_context_key, and the keys the slot map hands out after it
RootKey == 0
ScratchKeys == {1, 2}

\* an asset id that no data set holds
UnknownAsset == 3

\* a copy that takes every object of the other data set
copy_everything(self, other, object_ids) ==
    [a \in DOMAIN self \cup DOMAIN other |-> IF a \in DOMAIN other THEN other[a] ELSE self[a]]

\* DataSet::copy_from for each of the object ids, all of them in other
copy_all_from(self, other, object_ids) ==
    [a \in DOMAIN self \cup object_ids |-> IF a \in object_ids THEN other[a] ELSE self[a]]

\* DataSet::copy_from unwraps the object it looks up in other
copy_from_panics(other, object_ids) == ~(object_ids \subseteq DOMAIN other)

EditContext(data_set, modified_objects) ==
    [data_set |-> data_set, modified_objects |-> modified_objects]

\* open_edit_context(objects)
OpenEditContext ==
    /\ editor_panic = "none"
    /\ contexts_opened + 1 \in ScratchKeys
    /\ \E object_ids \in SUBSET (EditorAssets \cup {UnknownAsset}) :
        /\ open_request' = Some(object_ids)
        /\ IF copy_from_panics(edit_contexts[RootKey].data_set, object_ids)
           THEN /\ editor_panic' = "open_edit_context: copy_from"
                /\ UNCHANGED <<edit_contexts, contexts_opened>>
           ELSE /\ edit_contexts' =
                       MapInsert(edit_contexts, contexts_opened + 1,
                                 EditContext(copy_all_from(EmptyMap,
                                                           edit_contexts[RootKey].data_set,
                                                           object_ids),
                                             {}))
                /\ contexts_opened' = contexts_opened + 1
                /\ UNCHANGED editor_panic
    /\ UNCHANGED <<ds_vars, handle_vars, load_op_vars, loader_vars, import_vars, serde_vars,
                   pool_vars, indirect_vars, cancel_vars, editor_vars, populate_vars, location_vars, typed_vars, scope_vars, bits_vars, builder_vars, undo_vars, poolstep_vars, gather_vars>>

\* an asset is edited through an edit context, which tracks it as modified
ContextEdit ==
    /\ editor_panic = "none"
    /\ \E key \in DOMAIN edit_contexts :
       \E a \in DOMAIN edit_contexts[key].data_set, v \in EditorValues :
           /\ v # edit_contexts[key].data_set[a]
           /\ edit_contexts' =
                  [edit_contexts EXCEPT
                      ![key] = EditContext([@.data_set EXCEPT ![a] = v],
                                           @.modified_objects \cup {a})]
    /\ open_request' = None
    /\ UNCHANGED <<contexts_opened, editor_panic>>
    /\ UNCHANGED <<ds_vars, handle_vars, load_op_vars, loader_vars, import_vars, serde_vars,
                   pool_vars, indirect_vars, cancel_vars, editor_vars, populate_vars, location_vars, typed_vars, scope_vars, bits_vars, builder_vars, undo_vars, poolstep_vars, gather_vars>>

\* a flush that reports the copied assets to the change tracker of root
flush_tracked(modified_objects, object_ids) == modified_objects \cup object_ids

\* root_context.data_set.copy_from(..) in flush_edit_context_to_root: the
\* data set of root is written as a field, past the change tracker of root
flush_untracked(modified_objects, object_ids) == modified_objects

\* flush_edit_context_to_root(edit_context)
FlushEditContextToRoot ==
    /\ editor_panic = "none"
    /\ \E key \in DOMAIN edit_contexts :
           IF key = RootKey
           THEN /\ editor_panic' = "flush_edit_context_to_root: assert_ne"
                /\ UNCHANGED edit_contexts
           ELSE /\ edit_contexts' =
                       [edit_contexts EXCEPT
                           ![RootKey] =
                               EditContext(copy_all_from(@.data_set,
                                               edit_contexts[key].data_set,
                                               edit_contexts[key].modified_objects),
                                           flush_untracked(@.modified_objects,
                                               edit_contexts[key].modified_objects)),
                           ![key] = EditContext(@.data_set, {})]
                /\ UNCHANGED editor_panic
    /\ open_request' = None
    /\ UNCHANGED contexts_opened
    /\ UNCHANGED <<ds_vars, handle_vars, load_op_vars, loader_vars, import_vars, serde_vars,
                   pool_vars, indirect_vars, cancel_vars, editor_vars, populate_vars, location_vars, typed_vars, scope_vars, bits_vars, builder_vars, undo_vars, poolstep_vars, gather_vars>>

\* close_edit_context(edit_context)
CloseEditContext ==
    /\ editor_panic = "none"
    /\ \E key \in DOMAIN edit_contexts :
           IF key = RootKey
           THEN /\ editor_panic' = "close_edit_context: assert_ne"
                /\ UNCHANGED edit_contexts
           ELSE /\ edit_contexts' = MapRemove(edit_contexts, key)
                /\ UNCHANGED editor_panic
    /\ open_request' = None
    /\ UNCHANGED contexts_opened
    /\ UNCHANGED <<ds_vars, handle_vars, load_op_vars, loader_vars, import_vars, serde_vars,
                   pool_vars, indirect_vars, cancel_vars, editor_vars, populate_vars, location_vars, typed_vars, scope_vars, bits_vars, builder_vars, undo_vars, poolstep_vars, gather_vars>>

\* EditorModel::new and the load of the data sources: the root context holds
\* the assets, nothing is modified
InitContexts ==
    /\ edit_contexts =
           [k \in {RootKey} |-> EditContext([a \in EditorAssets |-> 0], {})]
    /\ contexts_opened = 0
    /\ editor_panic = "none"
    /\ open_request = None
    /\ DataSetIdle /\ HandleIdle /\ LoadOpIdle /\ LoaderIdle /\ ImportIdle /\ SerdeIdle
    /\ PoolIdle /\ IndirectIdle /\ CancelIdle /\ EditorIdle /\ PopulateIdle /\ LocationIdle /\ TypedIdle /\ ScopeIdle /\ BitsIdle /\ BuilderIdle /\ UndoIdle /\ PoolStepIdle /\ GatherIdle

NextContexts ==
    \/ OpenEditContext
    \/ ContextEdit
    \/ FlushEditContextToRoot
    \/ CloseEditContext

SpecContexts == InitContexts /\ [][NextContexts]_vars

\* what a step that is neither a flush nor an edit of the root context leaves
\* alone, and what a flush of the scratch context key does
RootUntouched == edit_contexts'[RootKey] = edit_contexts[RootKey]

FlushedToRoot(key) ==
    /\ edit_contexts'[key].modified_objects = {}
    /\ edit_contexts'[key].data_set = edit_contexts[key].data_set
    /\ edit_contexts'[RootKey].modified_objects = edit_contexts[RootKey].modified_objects
    /\ \A a \in EditorAssets :
           edit_contexts'[RootKey].data_set[a] =
               IF a \in edit_contexts[key].modified_objects
               THEN edit_contexts[key].data_set[a]
               ELSE edit_contexts[RootKey].data_set[a]

ScratchStep ==
    /\ \A key \in DOMAIN edit_contexts \ {RootKey} :
           \* an edit in the scratch context is not visible in root
           (key \in DOMAIN edit_contexts'
                /\ edit_contexts'[key].data_set # edit_contexts[key].data_set)
               => RootUntouched
    /\ \A key \in DOMAIN edit_contexts \ {RootKey} :
           \* the change tracking of a scratch context is cleared by its flush
           (key \in DOMAIN edit_contexts'
                /\ edit_contexts[key].modified_objects # {}
                /\ edit_contexts'[key].modified_objects = {})
               => FlushedToRoot(key)
    /\ edit_contexts'[RootKey].data_set # edit_contexts[RootKey].data_set
           => \/ \E key \in DOMAIN edit_contexts \ {RootKey} : FlushedToRoot(key)
              \/ edit_contexts'[RootKey].modified_objects
                     # edit_contexts[RootKey].modified_objects
              \/ \E a \in edit_contexts[RootKey].modified_objects :
                     edit_contexts'[RootKey].data_set[a]
                         # edit_contexts[RootKey].data_set[a]
    /\ RootKey \in DOMAIN edit_contexts'
    /\ editor_panic' \in {"flush_edit_context_to_root: assert_ne",
                          "close_edit_context: assert_ne"}
           => UNCHANGED edit_contexts

\* any_edit_context_has_unsaved_changes
any_edit_context_has_unsaved_changes ==
    \E key \in DOMAIN edit_contexts : edit_contexts[key].modified_objects # {}

\* C37: a flush of a scratch context puts the modified assets of the context
\* into the data set of root and leaves the set of modified assets of root
\* and the undo stack as they were.
C37_FlushLeavesRootTrackerUnchanged ==
    [][\A key \in DOMAIN edit_contexts \ {RootKey} :
           (key \in DOMAIN edit_contexts'
                /\ edit_contexts[key].modified_objects # {}
                /\ edit_contexts'[key].modified_objects = {})
               => /\ edit_contexts'[RootKey].modified_objects
                         = edit_contexts[RootKey].modified_objects
                  /\ \A a \in edit_contexts[key].modified_objects :
                         edit_contexts'[RootKey].data_set[a]
                             = edit_contexts[key].data_set[a]
                  /\ UNCHANGED <<undo_stack, undo_entries>>]_vars

\* root holds a flushed edit and no edit context reports unsaved changes
C37_Witness ==
    /\ ~any_edit_context_has_unsaved_changes
    /\ \E a \in DOMAIN edit_contexts[RootKey].data_set :
           edit_contexts[RootKey].data_set[a] = 1
    /\ DOMAIN edit_contexts # {RootKey}

-----------------------------------------------------------------------------
(* Path population: hydrate-model/src/editor/editor_model.rs,               *)
(* do_populate_path and populate_paths                                      *)

NumPathNodes == 2

\* the objects of the data set: path nodes and one asset of another schema
PathNodes == 1..NumPathNodes
PlainAsset == NumPathNodes + 1
PathObjects == PathNodes \cup {PlainAsset}

\* ObjectId::null, and an id that the data set does not hold
NullPathNode == 0
MissingObject == NumPathNodes + 2

\* a join that puts the name in front of the path
join_in_front(path, name) == <<name>> \o path

\* ObjectPath::root and ObjectPath::join; the name of an object is its id
ObjectPath_root == <<>>
ObjectPath_join(path, name) == Append(path, name)

\* a check that finds no cycle
never_cyclical(stack, path_node) == FALSE

\* is_cyclical_reference: path_stack.insert finds the node in the set
is_cyclical_reference(stack, path_node) == path_node \in stack

\* populate_paths, one turn of the loop: objects that are no path nodes are
\* skipped, a path node is resolved by do_populate_path
PopulateNext ==
    /\ populate_frames = <<>>
    /\ ~populate_call.some
    /\ \E object_id \in objects_to_visit :
           /\ objects_to_visit' = objects_to_visit \ {object_id}
           /\ populate_call' = IF object_id \in PathNodes THEN Some(object_id) ELSE None
    /\ populate_ret' = None
    /\ UNCHANGED <<object_location, unnamed_objects, populate_frames, path_stack, paths>>
    /\ UNCHANGED <<ds_vars, handle_vars, load_op_vars, loader_vars, import_vars, serde_vars,
                   pool_vars, indirect_vars, cancel_vars, editor_vars, ctx_vars, location_vars, typed_vars, scope_vars, bits_vars, builder_vars, undo_vars, poolstep_vars, gather_vars>>

\* do_populate_path from its entry to the recursive call or to its return
PopulateEnter ==
    /\ populate_call.some
    /\ LET path_node == populate_call.v
       IN  IF path_node = NullPathNode
           THEN /\ populate_ret' = Some(ObjectPath_root)
                /\ populate_call' = None
                /\ UNCHANGED <<populate_frames, path_stack, paths>>
           ELSE IF path_node \in DOMAIN paths
           THEN /\ populate_ret' = Some(paths[path_node])
                /\ populate_call' = None
                /\ UNCHANGED <<populate_frames, path_stack, paths>>
           ELSE IF is_cyclical_reference(path_stack, path_node)
           THEN /\ paths' = MapInsert(paths, path_node, ObjectPath_root)
                /\ populate_ret' = Some(ObjectPath_root)
                /\ populate_call' = None
                /\ UNCHANGED <<populate_frames, path_stack>>
           ELSE IF path_node \in PathObjects /\ path_node \notin unnamed_objects
           THEN /\ path_stack' = path_stack \cup {path_node}
                /\ populate_frames' = Append(populate_frames, path_node)
                /\ populate_call' = Some(object_location[path_node])
                /\ UNCHANGED <<populate_ret, paths>>
           ELSE /\ paths' = MapInsert(paths, path_node, ObjectPath_root)
                /\ path_stack' = path_stack \ {path_node}
                /\ populate_ret' = Some(ObjectPath_root)
                /\ populate_call' = None
                /\ UNCHANGED populate_frames
    /\ UNCHANGED <<object_location, unnamed_objects, objects_to_visit>>
    /\ UNCHANGED <<ds_vars, handle_vars, load_op_vars, loader_vars, import_vars, serde_vars,
                   pool_vars, indirect_vars, cancel_vars, editor_vars, ctx_vars, location_vars, typed_vars, scope_vars, bits_vars, builder_vars, undo_vars, poolstep_vars, gather_vars>>

\* do_populate_path after the recursive call: the name is joined to the path
\* of the parent, the path is stored and the node leaves the visited set
PopulateReturn ==
    /\ ~populate_call.some
    /\ populate_ret.some
    /\ populate_frames # <<>>
    /\ LET path_node == populate_frames[Len(populate_frames)]
           path == ObjectPath_join(populate_ret.v, path_node)
       IN  /\ paths' = MapInsert(paths, path_node, path)
           /\ path_stack' = path_stack \ {path_node}
           /\ populate_frames' = SubSeq(populate_frames, 1, Len(populate_frames) - 1)
           /\ populate_ret' = Some(path)
    /\ UNCHANGED <<object_location, unnamed_objects, objects_to_visit, populate_call>>
    /\ UNCHANGED <<ds_vars, handle_vars, load_op_vars, loader_vars, import_vars, serde_vars,
                   pool_vars, indirect_vars, cancel_vars, editor_vars, ctx_vars, location_vars, typed_vars, scope_vars, bits_vars, builder_vars, undo_vars, poolstep_vars, gather_vars>>

\* any parent graph over the objects, with or without cycles, null parents
\* and parents that the data set does not hold
InitPopulate ==
    /\ object_location \in
           [PathObjects -> PathObjects \cup {NullPathNode, MissingObject}]
    /\ unnamed_objects \in SUBSET {1}
    /\ objects_to_visit = PathObjects
    /\ populate_frames = <<>>
    /\ path_stack = {}
    /\ paths = EmptyMap
    /\ populate_call = None
    /\ populate_ret = None
    /\ DataSetIdle /\ HandleIdle /\ LoadOpIdle /\ LoaderIdle /\ ImportIdle /\ SerdeIdle
    /\ PoolIdle /\ IndirectIdle /\ CancelIdle /\ EditorIdle /\ ContextsIdle
    /\ LocationIdle /\ TypedIdle /\ ScopeIdle /\ BitsIdle /\ BuilderIdle /\ UndoIdle /\ PoolStepIdle /\ GatherIdle

NextPopulate ==
    \/ PopulateNext
    \/ PopulateEnter
    \/ PopulateReturn

\* populate_paths runs to its end: nothing else holds its steps up
SpecPopulate == InitPopulate /\ [][NextPopulate]_vars /\ WF_vars(NextPopulate)

PopulateAtTopLevel == populate_frames = <<>> /\ ~populate_call.some

PopulateDone == PopulateAtTopLevel /\ objects_to_visit = {}

\* C29: path population ends for every parent graph, cycles included: the
\* recursion is never deeper than the number of objects, a parent link that
\* re-enters a node still being resolved returns the root path, the visited
\* set is empty after each top-level resolution, and at the end every path
\* node has its one path entry.
C29_PathPopulationTerminates ==
    /\ [](/\ Len(populate_frames) <= Cardinality(PathObjects)
          /\ PopulateAtTopLevel => path_stack = {}
          /\ PopulateDone => PathNodes \subseteq DOMAIN paths)
    /\ [][(populate_call.some /\ populate_call.v \in path_stack)
              => /\ populate_ret' = Some(ObjectPath_root)
                 /\ populate_frames' = populate_frames]_vars
    /\ <>PopulateDone

\* the paths of two path nodes that are each other's parent have been resolved
C29_Witness ==
    /\ PopulateDone
    /\ object_location[1] = 2
    /\ object_location[2] = 1
    /\ unnamed_objects = {}
    /\ \E n \in {1, 2} : Len(paths[n]) = 2

-----------------------------------------------------------------------------
(* Locations of the objects of a data set: nexdb/src/database/data_set.rs,  *)
(* new_object, set_object_location, delete_object                           *)

MaxLocated == 3

\* ObjectLocation: the id of a path node, any id or the null id
ObjectLocations == 0..MaxLocated

\* the objects whose location is the path node
children_of(locations, path_node) ==
    {o \in DOMAIN locations : locations[o] = path_node}

\* new_object(object_name, object_location, schema)
LocationNewObject ==
    /\ located_created < MaxLocated
    /\ \E location \in ObjectLocations :
           object_locations' =
               MapInsert(object_locations, located_created + 1, location)
    /\ located_created' = located_created + 1
    /\ UNCHANGED <<ds_vars, handle_vars, load_op_vars, loader_vars, import_vars, serde_vars,
                   pool_vars, indirect_vars, cancel_vars, editor_vars, ctx_vars,
                   populate_vars, typed_vars, scope_vars, bits_vars, builder_vars, undo_vars, poolstep_vars, gather_vars>>

\* set_object_location(object_id, new_location)
SetObjectLocation ==
    /\ \E object_id \in DOMAIN object_locations, new_location \in ObjectLocations :
           object_locations' = [object_locations EXCEPT ![object_id] = new_location]
    /\ UNCHANGED located_created
    /\ UNCHANGED <<ds_vars, handle_vars, load_op_vars, loader_vars, import_vars, serde_vars,
                   pool_vars, indirect_vars, cancel_vars, editor_vars, ctx_vars,
                   populate_vars, typed_vars, scope_vars, bits_vars, builder_vars, undo_vars, poolstep_vars, gather_vars>>

\* delete_object(object_id): the object is removed from the map, nothing else
DeleteObject ==
    /\ \E object_id \in DOMAIN object_locations :
           object_locations' = MapRemove(object_locations, object_id)
    /\ UNCHANGED located_created
    /\ UNCHANGED <<ds_vars, handle_vars, load_op_vars, loader_vars, import_vars, serde_vars,
                   pool_vars, indirect_vars, cancel_vars, editor_vars, ctx_vars,
                   populate_vars, typed_vars, scope_vars, bits_vars, builder_vars, undo_vars, poolstep_vars, gather_vars>>

InitLocation ==
    /\ DataSetIdle /\ HandleIdle /\ LoadOpIdle /\ LoaderIdle /\ ImportIdle /\ SerdeIdle
    /\ PoolIdle /\ IndirectIdle /\ CancelIdle /\ EditorIdle /\ ContextsIdle /\ PopulateIdle
    /\ LocationIdle /\ TypedIdle /\ ScopeIdle /\ BitsIdle /\ BuilderIdle /\ UndoIdle /\ PoolStepIdle /\ GatherIdle

NextLocation ==
    \/ LocationNewObject
    \/ SetObjectLocation
    \/ DeleteObject

SpecLocation == InitLocation /\ [][NextLocation]_vars

\* C30: after delete_object(X) no object that remains in the data set has X
\* as the path node of its location.
C30_DeleteLeavesNoDanglingParent ==
    [][\A x \in DOMAIN object_locations :
           x \notin DOMAIN object_locations'
               => children_of(object_locations', x) = {}]_vars

-----------------------------------------------------------------------------
(* Schemas of objects and of their prototypes:                              *)
(* nexdb/src/database/data_set.rs, new_object, new_object_from_prototype,   *)
(* restore_object, copy_from, delete_object                                 *)

MaxTyped == 2

TypedIds == 1..MaxTyped
TypedSchemas == {"A", "B"}
TypedDataSets == {"self", "other"}

\* the schema and the prototype of a DataObjectInfo; NoObject for no prototype
TypedObjectInfo(schema, prototype) == [schema |-> schema, prototype |-> prototype]

\* insert_object gives the object an id of its own
TypedFreshIds == {id \in TypedIds : \A d \in TypedDataSets : id \notin DOMAIN typed_objects[d]}

\* new_object(object_name, object_location, schema)
TypedNewObject ==
    /\ \E d \in TypedDataSets, id \in TypedFreshIds, schema \in TypedSchemas :
           typed_objects' =
               [typed_objects EXCEPT
                   ![d] = MapInsert(@, id, TypedObjectInfo(schema, NoObject))]
    /\ UNCHANGED <<ds_vars, handle_vars, load_op_vars, loader_vars, import_vars, serde_vars,
                   pool_vars, indirect_vars, cancel_vars, editor_vars, ctx_vars,
                   populate_vars, location_vars, scope_vars, bits_vars, builder_vars, undo_vars, poolstep_vars, gather_vars>>

\* new_object_from_prototype(object_name, object_location, prototype)
TypedNewObjectFromPrototype ==
    /\ \E d \in TypedDataSets, id \in TypedFreshIds :
       \E prototype \in DOMAIN typed_objects[d] :
           typed_objects' =
               [typed_objects EXCEPT
                   ![d] = MapInsert(@, id,
                              TypedObjectInfo(typed_objects[d][prototype].schema,
                                              prototype))]
    /\ UNCHANGED <<ds_vars, handle_vars, load_op_vars, loader_vars, import_vars, serde_vars,
                   pool_vars, indirect_vars, cancel_vars, editor_vars, ctx_vars,
                   populate_vars, location_vars, scope_vars, bits_vars, builder_vars, undo_vars, poolstep_vars, gather_vars>>

\* restore_object(object_id, .., prototype, schema, ..): the object is built
\* from the arguments and inserted under the id
TypedRestoreObject ==
    /\ \E d \in TypedDataSets, object_id \in TypedIds, schema \in TypedSchemas,
          prototype \in TypedIds \cup {NoObject} :
           typed_objects' =
               [typed_objects EXCEPT
                   ![d] = MapInsert(@, object_id, TypedObjectInfo(schema, prototype))]
    /\ UNCHANGED <<ds_vars, handle_vars, load_op_vars, loader_vars, import_vars, serde_vars,
                   pool_vars, indirect_vars, cancel_vars, editor_vars, ctx_vars,
                   populate_vars, location_vars, scope_vars, bits_vars, builder_vars, undo_vars, poolstep_vars, gather_vars>>

\* copy_from(other, object_id), the object being in other
TypedCopyFrom ==
    /\ \E d \in TypedDataSets, from \in TypedDataSets :
       \E object_id \in DOMAIN typed_objects[from] :
           /\ d # from
           /\ typed_objects' =
                  [typed_objects EXCEPT
                      ![d] = MapInsert(@, object_id, typed_objects[from][object_id])]
    /\ UNCHANGED <<ds_vars, handle_vars, load_op_vars, loader_vars, import_vars, serde_vars,
                   pool_vars, indirect_vars, cancel_vars, editor_vars, ctx_vars,
                   populate_vars, location_vars, scope_vars, bits_vars, builder_vars, undo_vars, poolstep_vars, gather_vars>>

\* delete_object(object_id)
TypedDeleteObject ==
    /\ \E d \in TypedDataSets :
       \E object_id \in DOMAIN typed_objects[d] :
           typed_objects' = [typed_objects EXCEPT ![d] = MapRemove(@, object_id)]
    /\ UNCHANGED <<ds_vars, handle_vars, load_op_vars, loader_vars, import_vars, serde_vars,
                   pool_vars, indirect_vars, cancel_vars, editor_vars, ctx_vars,
                   populate_vars, location_vars, scope_vars, bits_vars, builder_vars, undo_vars, poolstep_vars, gather_vars>>

\* DataSet::default for both data sets
InitTyped ==
    /\ typed_objects = [d \in TypedDataSets |-> EmptyMap]
    /\ DataSetIdle /\ HandleIdle /\ LoadOpIdle /\ LoaderIdle /\ ImportIdle /\ SerdeIdle
    /\ PoolIdle /\ IndirectIdle /\ CancelIdle /\ EditorIdle /\ ContextsIdle /\ PopulateIdle
    /\ LocationIdle /\ ScopeIdle /\ BitsIdle /\ BuilderIdle /\ UndoIdle /\ PoolStepIdle /\ GatherIdle

NextTyped ==
    \/ TypedNewObject
    \/ TypedNewObjectFromPrototype
    \/ TypedRestoreObject
    \/ TypedCopyFrom
    \/ TypedDeleteObject

SpecTyped == InitTyped /\ [][NextTyped]_vars

\* C31: in every reachable data set an object whose prototype is present in
\* the data set has the schema of that prototype.
C31_PrototypeHasSameSchema ==
    \A d \in DOMAIN typed_objects :
    \A id \in DOMAIN typed_objects[d] :
        LET prototype == typed_objects[d][id].prototype
        IN  (prototype # NoObject /\ prototype \in DOMAIN typed_objects[d])
                => typed_objects[d][prototype].schema = typed_objects[d][id].schema

-----------------------------------------------------------------------------
(* The Serde Scope of a thread: hydrate-base/src/handle.rs, LOADER,         *)
(* REFOP_SENDER, SerdeContext::with_active, SerdeContext::with,             *)
(* DummySerdeContextHandle::scope, impl Deserialize for Handle<T>           *)

MaxScopeDepth == 2

ScopeThreads == {1, 2}
DummyContexts == {1, 2}

\* the thread_local cells of one thread
ThreadLocals(loader, refop_sender) == [LOADER |-> loader, REFOP_SENDER |-> refop_sender]

\* SerdeContext::with before the closure runs: both cells are set
with_installed(cells, loader, sender) == ThreadLocals(Some(loader), Some(sender))

\* a scope that puts back what it found
with_restored(cells, outer) == outer

\* SerdeContext::with after the closure returned: both cells are None
with_cleared(cells, outer) == ThreadLocals(None, None)

\* SerdeContext::with_active reaches its closure: both unwraps succeed
with_active_some(cells) == cells.LOADER.some /\ cells.REFOP_SENDER.some

\* impl Deserialize for Handle<T> on a thread with these cells: "error" for
\* the Err of the visitor, "panic" for the unwrap of an empty cell in
\* with_active, "handle" for Ok(Handle::new_internal(sender, handle))
scope_deserialize(cells, seq) ==
    IF ~ArtifactRefVisitor_visit_seq(seq).some
    THEN [result |-> "error"]
    ELSE IF ~with_active_some(cells)
         THEN [result |-> "panic"]
         ELSE [result |-> "handle", loader |-> cells.LOADER.v,
               sender |-> cells.REFOP_SENDER.v]

\* DummySerdeContextHandle::scope up to the call of the closure
ScopeEnter(t) ==
    /\ t \notin scope_panicked
    /\ Len(scope_stack[t]) < MaxScopeDepth
    /\ \E dummy \in DummyContexts :
           /\ thread_local' =
                  [thread_local EXCEPT ![t] = with_installed(@, dummy, dummy)]
           /\ scope_stack' = [scope_stack EXCEPT ![t] = Append(@, thread_local[t])]
           /\ scope_event' = [op |-> "enter", thread |-> t, dummy |-> dummy]
    /\ UNCHANGED scope_panicked
    /\ UNCHANGED <<ds_vars, handle_vars, load_op_vars, loader_vars, import_vars, serde_vars,
                   pool_vars, indirect_vars, cancel_vars, editor_vars, ctx_vars,
                   populate_vars, location_vars, typed_vars, bits_vars, builder_vars, undo_vars, poolstep_vars, gather_vars>>

\* the closure of the innermost scope returns and SerdeContext::with returns
ScopeReturn(t) ==
    /\ t \notin scope_panicked
    /\ Len(scope_stack[t]) > 0
    /\ thread_local' =
           [thread_local EXCEPT
               ![t] = with_cleared(@, scope_stack[t][Len(scope_stack[t])])]
    /\ scope_stack' = [scope_stack EXCEPT ![t] = SubSeq(@, 1, Len(@) - 1)]
    /\ scope_event' = [op |-> "return", thread |-> t]
    /\ UNCHANGED scope_panicked
    /\ UNCHANGED <<ds_vars, handle_vars, load_op_vars, loader_vars, import_vars, serde_vars,
                   pool_vars, indirect_vars, cancel_vars, editor_vars, ctx_vars,
                   populate_vars, location_vars, typed_vars, bits_vars, builder_vars, undo_vars, poolstep_vars, gather_vars>>

\* Handle::<T>::deserialize on thread t, in a closure or outside of every
\* scope; a panic ends the thread
ScopeDeserialize(t) ==
    /\ t \notin scope_panicked
    /\ \E seq \in WireSeqs :
           LET outcome == scope_deserialize(thread_local[t], seq)
           IN  /\ scope_event' =
                      [op |-> "deserialize", thread |-> t,
                       active |-> with_active_some(thread_local[t]),
                       outcome |-> outcome]
               /\ scope_panicked' =
                      IF outcome.result = "panic"
                      THEN scope_panicked \cup {t}
                      ELSE scope_panicked
    /\ UNCHANGED <<thread_local, scope_stack>>
    /\ UNCHANGED <<ds_vars, handle_vars, load_op_vars, loader_vars, import_vars, serde_vars,
                   pool_vars, indirect_vars, cancel_vars, editor_vars, ctx_vars,
                   populate_vars, location_vars, typed_vars, bits_vars, builder_vars, undo_vars, poolstep_vars, gather_vars>>

\* the thread_local initializers: RefCell::new(None) on every thread
InitScope ==
    /\ thread_local = [t \in ScopeThreads |-> ThreadLocals(None, None)]
    /\ scope_stack = [t \in ScopeThreads |-> <<>>]
    /\ scope_panicked = {}
    /\ scope_event = [op |-> "none"]
    /\ DataSetIdle /\ HandleIdle /\ LoadOpIdle /\ LoaderIdle /\ ImportIdle /\ SerdeIdle
    /\ PoolIdle /\ IndirectIdle /\ CancelIdle /\ EditorIdle /\ ContextsIdle /\ PopulateIdle
    /\ LocationIdle /\ TypedIdle /\ BitsIdle /\ BuilderIdle /\ UndoIdle /\ PoolStepIdle /\ GatherIdle

NextScope ==
    \E t \in ScopeThreads :
        \/ ScopeEnter(t)
        \/ ScopeReturn(t)
        \/ ScopeDeserialize(t)

SpecScope == InitScope /\ [][NextScope]_vars

\* C32: a deserialization of a handle on a thread without an active scope
\* returns an error to its caller (and so makes no handle).
C32_DeserializeWithoutScopeIsError ==
    (scope_event.op = "deserialize" /\ ~scope_event.active)
        => scope_event.outcome.result = "error"

\* C38: a scope sets the cells of its own thread for the closure; when it
\* returns both cells of the thread are None, whatever scope surrounds it,
\* and no step of a thread changes the cells of another thread; a
\* deserialization is answered by the cells of its own thread.
C38_ScopeLastsForTheClosureOnItsThread ==
    [][ /\ scope_event'.op = "enter" =>
               with_active_some(thread_local'[scope_event'.thread])
        /\ scope_event'.op = "return" =>
               /\ ~thread_local'[scope_event'.thread].LOADER.some
               /\ ~thread_local'[scope_event'.thread].REFOP_SENDER.some
        /\ scope_event'.op # "none" =>
               \A u \in ScopeThreads \ {scope_event'.thread} :
                   thread_local'[u] = thread_local[u]
        /\ (scope_event'.op = "deserialize"
               /\ scope_event'.outcome.result = "handle") =>
               /\ thread_local[scope_event'.thread].LOADER
                      = Some(scope_event'.outcome.loader)
               /\ thread_local[scope_event'.thread].REFOP_SENDER
                      = Some(scope_event'.outcome.sender)
      ]_vars

\* an inner scope returned while its outer closure still runs and the other
\* thread has a scope installed
C38_Witness ==
    /\ scope_event.op = "return"
    /\ Len(scope_stack[scope_event.thread]) = 1
    /\ ~with_active_some(thread_local[scope_event.thread])
    /\ \E u \in ScopeThreads \ {scope_event.thread} :
           with_active_some(thread_local[u])

-----------------------------------------------------------------------------
(* The bit of an indirect LoadHandle: hydrate-base/src/handle.rs,           *)
(* LoadHandle::new, LoadHandle::is_indirect.  The u64 of the source is      *)
(* modelled with LoadHandleBits bits; the high bit is bit LoadHandleBits-1. *)

LoadHandleBits == 5

RECURSIVE Pow2(_)
Pow2(k) == IF k = 0 THEN 1 ELSE 2 * Pow2(k - 1)

\* the values of the unsigned integer type
LoadHandleValues == 0..(Pow2(LoadHandleBits) - 1)

\* 1 << 63
HighBit == Pow2(LoadHandleBits - 1)

\* a | b and a & b, bit by bit
RECURSIVE BitOr(_, _, _)
BitOr(a, b, bits) ==
    IF bits = 0
    THEN 0
    ELSE (IF a % 2 = 1 \/ b % 2 = 1 THEN 1 ELSE 0)
             + 2 * BitOr(a \div 2, b \div 2, bits - 1)

RECURSIVE BitAnd(_, _, _)
BitAnd(a, b, bits) ==
    IF bits = 0
    THEN 0
    ELSE (IF a % 2 = 1 /\ b % 2 = 1 THEN 1 ELSE 0)
             + 2 * BitAnd(a \div 2, b \div 2, bits - 1)

\* LoadHandle::new(load_handle, is_indirect)
LoadHandle_new(handle, is_indirect) ==
    IF is_indirect
    THEN BitOr(handle, HighBit, LoadHandleBits)
    ELSE handle

\* LoadHandle::is_indirect(&self)
LoadHandle_is_indirect(self) == BitAnd(self, HighBit, LoadHandleBits) = HighBit

\* a call of LoadHandle::new
BitsNew ==
    /\ ~new_handle.some
    /\ new_handle' = Some(LoadHandle_new(new_args.v.n, new_args.v.is_indirect))
    /\ UNCHANGED <<new_args, is_indirect_ret>>
    /\ UNCHANGED <<ds_vars, handle_vars, load_op_vars, loader_vars, import_vars, serde_vars,
                   pool_vars, indirect_vars, cancel_vars, editor_vars, ctx_vars,
                   populate_vars, location_vars, typed_vars, scope_vars, builder_vars, undo_vars, poolstep_vars, gather_vars>>

\* a call of is_indirect on the handle
BitsIsIndirect ==
    /\ new_handle.some
    /\ ~is_indirect_ret.some
    /\ is_indirect_ret' = Some(LoadHandle_is_indirect(new_handle.v))
    /\ UNCHANGED <<new_args, new_handle>>
    /\ UNCHANGED <<ds_vars, handle_vars, load_op_vars, loader_vars, import_vars, serde_vars,
                   pool_vars, indirect_vars, cancel_vars, editor_vars, ctx_vars,
                   populate_vars, location_vars, typed_vars, scope_vars, builder_vars, undo_vars, poolstep_vars, gather_vars>>

\* every value of the integer type with either flag
InitBits ==
    /\ new_args \in {Some([n |-> n, is_indirect |-> b]) :
                        n \in LoadHandleValues, b \in BOOLEAN}
    /\ new_handle = None
    /\ is_indirect_ret = None
    /\ DataSetIdle /\ HandleIdle /\ LoadOpIdle /\ LoaderIdle /\ ImportIdle /\ SerdeIdle
    /\ PoolIdle /\ IndirectIdle /\ CancelIdle /\ EditorIdle /\ ContextsIdle /\ PopulateIdle
    /\ LocationIdle /\ TypedIdle /\ ScopeIdle /\ BuilderIdle /\ UndoIdle /\ PoolStepIdle /\ GatherIdle

NextBits ==
    \/ BitsNew
    \/ BitsIsIndirect

SpecBits == InitBits /\ [][NextBits]_vars

\* C33: for every value n of the integer type, is_indirect of
\* LoadHandle::new(n, flag) is the flag, and the bits of n below the high bit
\* are the bits of the handle below the high bit.
C33_HighBitAloneTellsIndirect ==
    is_indirect_ret.some =>
        /\ is_indirect_ret.v = new_args.v.is_indirect
        /\ new_handle.v % HighBit = new_args.v.n % HighBit

-----------------------------------------------------------------------------
(* A record builder and the fields that share its data container:           *)
(* hydrate-data/src/field_wrappers.rs, RecordBuilder, BooleanField,         *)
(* NullableField, DynamicArrayField                                         *)

MaxBuilderEntries == 2

NullOverrides == {"Unset", "SetNull", "SetNonNull"}

\* the parts of a DataContainer the fields below reach: the override of a
\* boolean property, the null override of a nullable property and the
\* number of entries of a dynamic array
DataContainer(property, null_override, entries) ==
    [property |-> property, null_override |-> null_override, entries |-> entries]

\* DataContainer::from_single_object of a new single object
DataContainer_new == DataContainer(None, "Unset", 0)

DataTaken == [ok |-> FALSE, err |-> "DataTaken"]
Ok(v) == [ok |-> TRUE, v |-> v]

\* a cell read without the test for None
unwrap_or_new(cell) == Ok(IF cell.some THEN cell.v ELSE DataContainer_new)

\* .as_ref() / .as_mut() followed by .ok_or(DataSetError::DataTaken)
ok_or_DataTaken(cell) == IF cell.some THEN Ok(cell.v) ELSE DataTaken

\* RecordBuilder::into_inner, which consumes the builder; the fields made
\* from the builder keep the cell
RecordBuilder_into_inner ==
    /\ builder_cell.some
    /\ builder_cell' = None
    /\ builder_event' =
           [op |-> "into_inner",
            ret |-> ok_or_DataTaken(builder_cell)]
    /\ UNCHANGED <<ds_vars, handle_vars, load_op_vars, loader_vars, import_vars, serde_vars,
                   pool_vars, indirect_vars, cancel_vars, editor_vars, ctx_vars,
                   populate_vars, location_vars, typed_vars, scope_vars, bits_vars, undo_vars, poolstep_vars, gather_vars>>

\* BooleanField::get: the override, or the default of the schema
BooleanField_get ==
    /\ LET container == ok_or_DataTaken(builder_cell)
       IN  builder_event' =
               [op |-> "get",
                ret |-> IF ~container.ok
                        THEN container
                        ELSE Ok(IF container.v.property.some
                                THEN container.v.property.v
                                ELSE FALSE)]
    /\ UNCHANGED builder_cell
    /\ UNCHANGED <<ds_vars, handle_vars, load_op_vars, loader_vars, import_vars, serde_vars,
                   pool_vars, indirect_vars, cancel_vars, editor_vars, ctx_vars,
                   populate_vars, location_vars, typed_vars, scope_vars, bits_vars, undo_vars, poolstep_vars, gather_vars>>

\* BooleanField::set(value): returns the override it replaced
BooleanField_set ==
    \E value \in BOOLEAN :
        /\ LET container == ok_or_DataTaken(builder_cell)
           IN  IF ~container.ok
               THEN /\ builder_event' = [op |-> "set", ret |-> container]
                    /\ UNCHANGED builder_cell
               ELSE /\ builder_event' = [op |-> "set", ret |-> Ok(container.v.property)]
                    /\ builder_cell' =
                           Some([container.v EXCEPT !.property = Some(value)])
        /\ UNCHANGED <<ds_vars, handle_vars, load_op_vars, loader_vars, import_vars, serde_vars,
                       pool_vars, indirect_vars, cancel_vars, editor_vars, ctx_vars,
                       populate_vars, location_vars, typed_vars, scope_vars, bits_vars, undo_vars, poolstep_vars, gather_vars>>

\* NullableField::resolve_null_override
NullableField_resolve_null_override ==
    /\ LET container == ok_or_DataTaken(builder_cell)
       IN  builder_event' =
               [op |-> "resolve_null_override",
                ret |-> IF ~container.ok
                        THEN container
                        ELSE Ok(container.v.null_override)]
    /\ UNCHANGED builder_cell
    /\ UNCHANGED <<ds_vars, handle_vars, load_op_vars, loader_vars, import_vars, serde_vars,
                   pool_vars, indirect_vars, cancel_vars, editor_vars, ctx_vars,
                   populate_vars, location_vars, typed_vars, scope_vars, bits_vars, undo_vars, poolstep_vars, gather_vars>>

\* NullableField::set_null_override(null_override): the override is set and
\* then resolved; Some(field) is returned when it resolves to SetNonNull
NullableField_set_null_override ==
    \E null_override \in NullOverrides :
        /\ LET container == ok_or_DataTaken(builder_cell)
           IN  IF ~container.ok
               THEN /\ builder_event' = [op |-> "set_null_override", ret |-> container]
                    /\ UNCHANGED builder_cell
               ELSE /\ builder_cell' =
                           Some([container.v EXCEPT !.null_override = null_override])
                    /\ builder_event' =
                           [op |-> "set_null_override",
                            ret |-> LET again == ok_or_DataTaken(builder_cell')
                                    IN  IF ~again.ok
                                        THEN again
                                        ELSE Ok(again.v.null_override = "SetNonNull")]
        /\ UNCHANGED <<ds_vars, handle_vars, load_op_vars, loader_vars, import_vars, serde_vars,
                       pool_vars, indirect_vars, cancel_vars, editor_vars, ctx_vars,
                       populate_vars, location_vars, typed_vars, scope_vars, bits_vars, undo_vars, poolstep_vars, gather_vars>>

\* DynamicArrayField::resolve_entries
DynamicArrayField_resolve_entries ==
    /\ LET container == ok_or_DataTaken(builder_cell)
       IN  builder_event' =
               [op |-> "resolve_entries",
                ret |-> IF ~container.ok THEN container ELSE Ok(container.v.entries)]
    /\ UNCHANGED builder_cell
    /\ UNCHANGED <<ds_vars, handle_vars, load_op_vars, loader_vars, import_vars, serde_vars,
                   pool_vars, indirect_vars, cancel_vars, editor_vars, ctx_vars,
                   populate_vars, location_vars, typed_vars, scope_vars, bits_vars, undo_vars, poolstep_vars, gather_vars>>

\* DynamicArrayField::add_entry: a new entry, whose Uuid is returned
DynamicArrayField_add_entry ==
    /\ LET container == ok_or_DataTaken(builder_cell)
       IN  IF ~container.ok
           THEN /\ builder_event' = [op |-> "add_entry", ret |-> container]
                /\ UNCHANGED builder_cell
           ELSE /\ container.v.entries < MaxBuilderEntries
                /\ builder_cell' =
                       Some([container.v EXCEPT !.entries = @ + 1])
                /\ builder_event' =
                       [op |-> "add_entry", ret |-> Ok(container.v.entries + 1)]
    /\ UNCHANGED <<ds_vars, handle_vars, load_op_vars, loader_vars, import_vars, serde_vars,
                   pool_vars, indirect_vars, cancel_vars, editor_vars, ctx_vars,
                   populate_vars, location_vars, typed_vars, scope_vars, bits_vars, undo_vars, poolstep_vars, gather_vars>>

\* RecordBuilder::new
InitBuilder ==
    /\ builder_cell = Some(DataContainer_new)
    /\ builder_event = [op |-> "none"]
    /\ DataSetIdle /\ HandleIdle /\ LoadOpIdle /\ LoaderIdle /\ ImportIdle /\ SerdeIdle
    /\ PoolIdle /\ IndirectIdle /\ CancelIdle /\ EditorIdle /\ ContextsIdle /\ PopulateIdle
    /\ LocationIdle /\ TypedIdle /\ ScopeIdle /\ BitsIdle /\ UndoIdle /\ PoolStepIdle /\ GatherIdle

NextBuilder ==
    \/ RecordBuilder_into_inner
    \/ BooleanField_get
    \/ BooleanField_set
    \/ NullableField_resolve_null_override
    \/ NullableField_set_null_override
    \/ DynamicArrayField_resolve_entries
    \/ DynamicArrayField_add_entry

SpecBuilder == InitBuilder /\ [][NextBuilder]_vars

FieldCalls ==
    {"get", "set", "resolve_null_override", "set_null_override",
     "resolve_entries", "add_entry"}

\* C34: once into_inner has taken the data container, every call through a
\* field that shares the cell returns DataTaken and leaves the cell as it is.
C34_FieldsReturnDataTakenAfterIntoInner ==
    [][ (~builder_cell.some /\ builder_event'.op \in FieldCalls)
            => (builder_event'.ret = DataTaken /\ builder_cell' = builder_cell)
      ]_vars

\* the container was taken and a later call through a field got DataTaken
C34_Witness ==
    /\ ~builder_cell.some
    /\ builder_event.op \in FieldCalls
    /\ builder_event.ret = DataTaken

-----------------------------------------------------------------------------
(* The pending undo contexts of all edit contexts:                          *)
(* hydrate-model/src/editor/editor_model.rs,                                *)
(* commit_all_pending_undo_contexts, cancel_all_pending_undo_contexts       *)

UndoKeys == {RootKey} \cup ScratchKeys
UndoAssets == {1}

\* an edit context of the editor model; the undo stack is the editor's
UndoEditContext(data_set, modified_objects, pending) ==
    [data_set |-> data_set, modified_objects |-> modified_objects, pending |-> pending]

\* context.commit_pending_undo_context() for one context of the editor model:
\* [context, stack], the context and the undo stack afterwards
commit_one(context, stack) ==
    LET c == commit_pending_undo_context(
                 EditContextState(context.data_set, context.modified_objects,
                                  context.pending, stack))
    IN  [context |-> UndoEditContext(c.data_set, c.modified_objects, c.pending),
         stack |-> c.entries]

\* for (_, context) in &mut self.edit_contexts { context.commit_pending_undo_context() }
RECURSIVE commit_each(_, _, _)
commit_each(contexts, keys, stack) ==
    IF keys = {}
    THEN [contexts |-> contexts, stack |-> stack]
    ELSE LET k == CHOOSE key \in keys : TRUE
             c == commit_one(contexts[k], stack)
         IN  commit_each([contexts EXCEPT ![k] = c.context], keys \ {k}, c.stack)

\* the state in which every pending undo context has been cancelled
all_cancelled(contexts) ==
    [k \in DOMAIN contexts |->
        LET c == cancel_pending_undo_context(
                     EditContextState(contexts[k].data_set, contexts[k].modified_objects,
                                      contexts[k].pending, 0))
        IN  UndoEditContext(c.data_set, c.modified_objects, c.pending)]

\* an asset of a context is edited inside the pending undo context
UndoEdit ==
    /\ undo_stack < MaxUndoEntries
    /\ \E k \in UndoKeys, a \in UndoAssets, v \in EditorValues :
           LET context == undo_contexts[k]
           IN  /\ v # context.data_set[a]
               /\ undo_contexts' =
                      [undo_contexts EXCEPT
                          ![k] = UndoEditContext(
                                     [context.data_set EXCEPT ![a] = v],
                                     context.modified_objects,
                                     IF context.pending.some
                                     THEN Some(UndoContext(context.pending.v.before,
                                               context.pending.v.objects \cup {a}))
                                     ELSE Some(UndoContext(context.data_set, {a})))]
    /\ undo_event' = [op |-> "edit"]
    /\ UNCHANGED undo_stack
    /\ UNCHANGED <<ds_vars, handle_vars, load_op_vars, loader_vars, import_vars, serde_vars,
                   pool_vars, indirect_vars, cancel_vars, editor_vars, ctx_vars,
                   populate_vars, location_vars, typed_vars, scope_vars, bits_vars,
                   builder_vars, poolstep_vars, gather_vars>>

\* commit_all_pending_undo_contexts
CommitAllPendingUndoContexts ==
    /\ LET all == commit_each(undo_contexts, DOMAIN undo_contexts, undo_stack)
       IN  /\ undo_contexts' = all.contexts
           /\ undo_stack' = all.stack
    /\ undo_event' = [op |-> "commit_all"]
    /\ UNCHANGED <<ds_vars, handle_vars, load_op_vars, loader_vars, import_vars, serde_vars,
                   pool_vars, indirect_vars, cancel_vars, editor_vars, ctx_vars,
                   populate_vars, location_vars, typed_vars, scope_vars, bits_vars,
                   builder_vars, poolstep_vars, gather_vars>>

\* cancel_all_pending_undo_contexts: its loop calls
\* context.commit_pending_undo_context() on every context
CancelAllPendingUndoContexts ==
    /\ LET all == commit_each(undo_contexts, DOMAIN undo_contexts, undo_stack)
       IN  /\ undo_contexts' = all.contexts
           /\ undo_stack' = all.stack
    /\ undo_event' = [op |-> "cancel_all", contexts |-> undo_contexts,
                      stack |-> undo_stack]
    /\ UNCHANGED <<ds_vars, handle_vars, load_op_vars, loader_vars, import_vars, serde_vars,
                   pool_vars, indirect_vars, cancel_vars, editor_vars, ctx_vars,
                   populate_vars, location_vars, typed_vars, scope_vars, bits_vars,
                   builder_vars, poolstep_vars, gather_vars>>

\* an editor model with a root context and two scratch contexts
InitUndo ==
    /\ undo_contexts = [k \in UndoKeys |-> UndoEditContext([a \in UndoAssets |-> 0], {}, None)]
    /\ undo_stack = 0
    /\ undo_event = [op |-> "none"]
    /\ DataSetIdle /\ HandleIdle /\ LoadOpIdle /\ LoaderIdle /\ ImportIdle /\ SerdeIdle
    /\ PoolIdle /\ IndirectIdle /\ CancelIdle /\ EditorIdle /\ ContextsIdle /\ PopulateIdle
    /\ LocationIdle /\ TypedIdle /\ ScopeIdle /\ BitsIdle /\ BuilderIdle /\ PoolStepIdle /\ GatherIdle

NextUndo ==
    \/ UndoEdit
    \/ CommitAllPendingUndoContexts
    \/ CancelAllPendingUndoContexts

SpecUndo == InitUndo /\ [][NextUndo]_vars

\* C35: after cancel_all_pending_undo_contexts no context has a pending undo
\* context, the edits of the pending contexts are rolled back, and the undo
\* stack is as long as before the call.
C35_CancelAllRollsBackEveryContext ==
    undo_event.op = "cancel_all" =>
        /\ \A k \in DOMAIN undo_contexts : ~undo_contexts[k].pending.some
        /\ undo_contexts = all_cancelled(undo_event.contexts)
        /\ undo_stack = undo_event.stack

-----------------------------------------------------------------------------
(* The active request count of the pool, statement by statement:            *)
(* hydrate-pipeline/src/import_thread_pool.rs, the RequestImport arm of     *)
(* ImportWorkerThread::new, ImportWorkerThreadPool::is_idle, add_request    *)

\* an add_request that leaves the count as it is
fetch_add_nothing(count) == count

\* active_request_count.fetch_add(1, Ordering::Release)
fetch_add(count) == count + 1

\* active_request_count.fetch_sub(1, Ordering::Release)
fetch_sub(count) == count - 1

\* ImportWorkerThreadPool::is_idle
is_idle == active_request_count = 0

\* the worker has sent the outcome of the request and not yet decremented
WorkerSent(request) == [state |-> "sent", request |-> request]

\* add_request, first statement
AddRequestFetchAdd ==
    /\ ~add_request_pc.some
    /\ requests_added < MaxRequests
    /\ active_request_count' = fetch_add(active_request_count)
    /\ requests_added' = requests_added + 1
    /\ \E asset \in ImportableAssets :
           add_request_pc' = Some([id |-> requests_added + 1, asset |-> asset])
    /\ UNCHANGED <<request_queue, worker_threads, result_queue>>
    /\ UNCHANGED <<ds_vars, handle_vars, load_op_vars, loader_vars, import_vars, serde_vars,
                   indirect_vars, cancel_vars, editor_vars, ctx_vars, populate_vars,
                   location_vars, typed_vars, scope_vars, bits_vars, builder_vars,
                   undo_vars, gather_vars>>

\* add_request, second statement: request_tx.send(request)
AddRequestSend ==
    /\ add_request_pc.some
    /\ request_queue' = Append(request_queue, add_request_pc.v)
    /\ add_request_pc' = None
    /\ UNCHANGED <<worker_threads, result_queue, active_request_count, requests_added>>
    /\ UNCHANGED <<ds_vars, handle_vars, load_op_vars, loader_vars, import_vars, serde_vars,
                   indirect_vars, cancel_vars, editor_vars, ctx_vars, populate_vars,
                   location_vars, typed_vars, scope_vars, bits_vars, builder_vars,
                   undo_vars, gather_vars>>

\* do_import returned and the worker sends the outcome on outcome_tx
WorkerSendOutcome(w) ==
    /\ worker_threads[w].state = "busy"
    /\ \E result \in {"Ok", "Err"} :
           result_queue' = Append(result_queue,
                                  [request |-> worker_threads[w].request,
                                   result |-> result])
    /\ worker_threads' = [worker_threads EXCEPT ![w] = WorkerSent(@.request)]
    /\ UNCHANGED <<request_queue, active_request_count, requests_added, add_request_pc>>
    /\ UNCHANGED <<ds_vars, handle_vars, load_op_vars, loader_vars, import_vars, serde_vars,
                   indirect_vars, cancel_vars, editor_vars, ctx_vars, populate_vars,
                   location_vars, typed_vars, scope_vars, bits_vars, builder_vars,
                   undo_vars, gather_vars>>

\* the worker decrements the count and goes back to select!
WorkerFetchSub(w) ==
    /\ worker_threads[w].state = "sent"
    /\ active_request_count' = fetch_sub(active_request_count)
    /\ worker_threads' = [worker_threads EXCEPT ![w] = WorkerIdle]
    /\ UNCHANGED <<request_queue, result_queue, requests_added, add_request_pc>>
    /\ UNCHANGED <<ds_vars, handle_vars, load_op_vars, loader_vars, import_vars, serde_vars,
                   indirect_vars, cancel_vars, editor_vars, ctx_vars, populate_vars,
                   location_vars, typed_vars, scope_vars, bits_vars, builder_vars,
                   undo_vars, gather_vars>>

NextPoolSteps ==
    \/ AddRequestFetchAdd
    \/ AddRequestSend
    \/ \E w \in DOMAIN worker_threads : WorkerRecv(w)
    \/ \E w \in DOMAIN worker_threads : WorkerSendOutcome(w)
    \/ \E w \in DOMAIN worker_threads : WorkerFetchSub(w)
    \/ \E w \in DOMAIN worker_threads : WorkerPanic(w)

SpecPoolSteps == InitPool /\ [][NextPoolSteps]_vars

\* C36: the count never falls below zero, it is at least the number of
\* requests queued or executing, a worker about to decrement has sent the
\* outcome of its request, and when is_idle() is true every request added so
\* far has its outcome on the result channel.
C36_CountCoversQueuedAndExecuting ==
    /\ active_request_count >= 0
    /\ active_request_count >= Len(request_queue) + Cardinality(BusyWorkers)
    /\ \A w \in DOMAIN worker_threads :
           worker_threads[w].state = "sent"
               => OutcomesOf(worker_threads[w].request.id) # {}
    /\ is_idle => \A n \in 1..requests_added : OutcomesOf(n) # {}

\* the pool is idle again after requests were added and answered
C36_Witness ==
    /\ is_idle
    /\ requests_added >= 2
    /\ \A n \in 1..requests_added : OutcomesOf(n) # {}

-----------------------------------------------------------------------------
(* Gathering the imports of a source file and of the files it references:   *)
(* hydrate-pipeline/src/import_util.rs,                                     *)
(* recursively_gather_import_operations_and_create_assets.  Every file has  *)
(* one importable, so requested_importables of a call is empty while the    *)
(* references of that importable are visited.                               *)

NumSourceFiles == 3
MaxGatherDepth == NumSourceFiles + 1

SourceFiles == 1..NumSourceFiles

\* the frame of a call: its source_file_path and the references the loop
\* over referenced_source_files has not visited yet
GatherFrame(file, todo) == [file |-> file, todo |-> todo]

TopFrame == gather_stack[Len(gather_stack)]

\* the loop visits referenced_source_files in the order of the Vec
next_reference(todo) == CHOOSE r \in todo : \A q \in todo : r <= q

\* "Have we imported it previously?": an asset of the data set has the
\* referenced file as the source file of its import info
found_in_data_set(reference) == reference \in imported_source_files

\* the reference was found: the loop goes on to the next reference
GatherFound ==
    /\ gather_status = "running"
    /\ TopFrame.todo # {}
    /\ found_in_data_set(next_reference(TopFrame.todo))
    /\ gather_stack' =
           [gather_stack EXCEPT
               ![Len(gather_stack)] =
                   GatherFrame(@.file, @.todo \ {next_reference(@.todo)})]
    /\ UNCHANGED <<referenced_source_files, imported_source_files, imports_to_queue,
                   gather_status>>
    /\ UNCHANGED <<ds_vars, handle_vars, load_op_vars, loader_vars, import_vars, serde_vars,
                   pool_vars, indirect_vars, cancel_vars, editor_vars, ctx_vars,
                   populate_vars, location_vars, typed_vars, scope_vars, bits_vars,
                   builder_vars, undo_vars, poolstep_vars>>

\* the reference was not found: the function calls itself for the referenced
\* file; a call deeper than any chain of distinct files ends the process by
\* exhausting the call stack
GatherRecurse ==
    /\ gather_status = "running"
    /\ TopFrame.todo # {}
    /\ ~found_in_data_set(next_reference(TopFrame.todo))
    /\ LET reference == next_reference(TopFrame.todo)
       IN  IF Len(gather_stack) < MaxGatherDepth
           THEN /\ gather_stack' =
                       Append([gather_stack EXCEPT
                                  ![Len(gather_stack)] =
                                      GatherFrame(@.file, @.todo \ {reference})],
                              GatherFrame(reference,
                                          referenced_source_files[reference]))
                /\ UNCHANGED gather_status
           ELSE /\ gather_status' = "overflow"
                /\ UNCHANGED gather_stack
    /\ UNCHANGED <<referenced_source_files, imported_source_files, imports_to_queue>>
    /\ UNCHANGED <<ds_vars, handle_vars, load_op_vars, loader_vars, import_vars, serde_vars,
                   pool_vars, indirect_vars, cancel_vars, editor_vars, ctx_vars,
                   populate_vars, location_vars, typed_vars, scope_vars, bits_vars,
                   builder_vars, undo_vars, poolstep_vars>>

\* every reference was visited: the call pushes its ImportToQueue and returns
GatherReturn ==
    /\ gather_status = "running"
    /\ TopFrame.todo = {}
    /\ imports_to_queue' = Append(imports_to_queue, TopFrame.file)
    /\ gather_stack' = SubSeq(gather_stack, 1, Len(gather_stack) - 1)
    /\ gather_status' = IF Len(gather_stack) = 1 THEN "returned" ELSE "running"
    /\ UNCHANGED <<referenced_source_files, imported_source_files>>
    /\ UNCHANGED <<ds_vars, handle_vars, load_op_vars, loader_vars, import_vars, serde_vars,
                   pool_vars, indirect_vars, cancel_vars, editor_vars, ctx_vars,
                   populate_vars, location_vars, typed_vars, scope_vars, bits_vars,
                   builder_vars, undo_vars, poolstep_vars>>

\* the call for source file 1, for every reference graph over the files and
\* every set of files imported before
InitGather ==
    /\ referenced_source_files \in [SourceFiles -> SUBSET SourceFiles]
    /\ imported_source_files \in SUBSET (SourceFiles \ {1})
    /\ gather_stack = <<GatherFrame(1, referenced_source_files[1])>>
    /\ imports_to_queue = <<>>
    /\ gather_status = "running"
    /\ DataSetIdle /\ HandleIdle /\ LoadOpIdle /\ LoaderIdle /\ ImportIdle /\ SerdeIdle
    /\ PoolIdle /\ IndirectIdle /\ CancelIdle /\ EditorIdle /\ ContextsIdle /\ PopulateIdle
    /\ LocationIdle /\ TypedIdle /\ ScopeIdle /\ BitsIdle /\ BuilderIdle /\ UndoIdle
    /\ PoolStepIdle

NextGather ==
    \/ GatherFound
    \/ GatherRecurse
    \/ GatherReturn

\* the thread that runs the call keeps running
SpecGather == InitGather /\ [][NextGather]_vars /\ WF_vars(NextGather)

\* C39: the call returns for every reference graph, cyclic ones included, and
\* on return the entry of a referenced file that has an entry precedes the
\* entry of the file that references it.
C39_GatherTerminates ==
    /\ <>(gather_status = "returned")
    /\ [](gather_status = "returned" =>
             \A j \in DOMAIN imports_to_queue :
             \A r \in referenced_source_files[imports_to_queue[j]] :
                 (\E i \in DOMAIN imports_to_queue : imports_to_queue[i] = r)
                     => \E i \in 1..(j - 1) : imports_to_queue[i] = r)

-----------------------------------------------------------------------------
(* The paths that path population computes:                                 *)
(* hydrate-model/src/editor/editor_model.rs, do_populate_path,              *)
(* populate_paths; nexdb/src/database/data_set.rs, ObjectPath::join         *)

\* do_populate_path as a function: [paths, ret], the map afterwards and the
\* path returned
RECURSIVE do_populate_path(_, _, _)
do_populate_path(stack, known, path_node) ==
    IF path_node = NullPathNode
    THEN [paths |-> known, ret |-> ObjectPath_root]
    ELSE IF path_node \in DOMAIN known
    THEN [paths |-> known, ret |-> known[path_node]]
    ELSE IF is_cyclical_reference(stack, path_node)
    THEN [paths |-> MapInsert(known, path_node, ObjectPath_root),
          ret |-> ObjectPath_root]
    ELSE IF path_node \in PathObjects /\ path_node \notin unnamed_objects
    THEN LET parent == do_populate_path(stack \cup {path_node}, known,
                                        object_location[path_node])
             path == ObjectPath_join(parent.ret, path_node)
         IN  [paths |-> MapInsert(parent.paths, path_node, path), ret |-> path]
    ELSE [paths |-> MapInsert(known, path_node, ObjectPath_root),
          ret |-> ObjectPath_root]

\* populate_paths with the objects visited in the order of their ids, from
\* object_id on
RECURSIVE populate_paths(_, _)
populate_paths(object_id, known) ==
    IF object_id \notin PathObjects
    THEN known
    ELSE populate_paths(object_id + 1,
                        IF object_id \in PathNodes
                        THEN do_populate_path({}, known, object_id).paths
                        ELSE known)

\* the node and all its ancestors exist and are named, and the chain ends at
\* the null id within steps links
RECURSIVE ancestors_exist_named_acyclic(_, _)
ancestors_exist_named_acyclic(path_node, steps) ==
    /\ steps > 0
    /\ path_node \in PathObjects
    /\ path_node \notin unnamed_objects
    /\ \/ object_location[path_node] = NullPathNode
       \/ ancestors_exist_named_acyclic(object_location[path_node], steps - 1)

\* the names of the ancestors of such a node, from the outermost down to the
\* node itself
RECURSIVE ancestor_names(_)
ancestor_names(path_node) ==
    IF object_location[path_node] = NullPathNode
    THEN <<path_node>>
    ELSE Append(ancestor_names(object_location[path_node]), path_node)

\* the parent chain of the node ends within steps links: at the null id, at an
\* id the data set does not hold or at an unnamed object
RECURSIVE chain_ends(_, _)
chain_ends(path_node, steps) ==
    \/ path_node = NullPathNode
    \/ path_node \notin PathObjects
    \/ path_node \in unnamed_objects
    \/ /\ steps > 0
       /\ chain_ends(object_location[path_node], steps - 1)

PathOfGoodChain ==
    \A path_node \in PathNodes :
        ancestors_exist_named_acyclic(path_node, Cardinality(PathObjects))
            => paths[path_node] = ObjectPath_root \o ancestor_names(path_node)

\* C40 as stated: a path node whose ancestors exist, are named and form no
\* cycle gets the root path joined with the names of its ancestors from the
\* outermost down to itself, and the paths of all nodes are the same in
\* whatever order the objects are visited.
C40_PathsIndependentOfVisitOrder ==
    PopulateDone =>
        /\ PathOfGoodChain
        /\ paths = populate_paths(1, EmptyMap)

\* C40, amended: as stated for the path of a node of a good chain; the paths
\* of the nodes whose parent chain reaches no cycle are the same in whatever
\* order the objects are visited.
C40_AcyclicPathsIndependentOfVisitOrder ==
    PopulateDone =>
        /\ PathOfGoodChain
        /\ \A path_node \in DOMAIN paths :
               chain_ends(path_node, Cardinality(PathObjects))
                   => paths[path_node] = populate_paths(1, EmptyMap)[path_node]

\* a path node below a path node below the asset of another schema has the
\* three names as its path, the outermost first
C40_Witness ==
    /\ PopulateDone
    /\ \E path_node \in PathNodes :
           /\ ancestors_exist_named_acyclic(path_node, Cardinality(PathObjects))
           /\ Len(paths[path_node]) = 3
           /\ paths[path_node][1] = PlainAsset

====
